---- MODULE Spec2Model ----
(***************************************************************************)
(* Model of the proxystore P2P signaling server                            *)
(* (src/proxystore/p2p/server.py).                                         *)
(*                                                                         *)
(* Every websocket connection runs one SignalingServer.handler coroutine   *)
(* on a single asyncio event loop.  A coroutine runs without interruption  *)
(* from one await to the next, so each action below is the code executed   *)
(* by one handler between two consecutive suspension points:               *)
(*   await websocket.recv()      (pc = "recv")                             *)
(*   await websocket.send(..)    (pc = "send")                             *)
(*   await websocket.close(..)   (pc = "register_unregister" when awaited  *)
(*                                from register, "unregister" when awaited *)
(*                                from the handler's except clauses)       *)
(* recv returns a frame only while the connection is open, and raises      *)
(* ConnectionClosedOK or ConnectionClosedError once it is closed.          *)
(* Connections are numbered in the order of their first event and uuids in *)
(* the order of their first use: connection h + 1 is accepted no earlier   *)
(* than connection h, and a uuid that no frame has carried yet, whether a  *)
(* client chose it or uuid4() produced it, is the number nuuids + 1.       *)
(***************************************************************************)
EXTENDS Integers, Sequences, FiniteSets, TLC

(* ------------------------------- bounds -------------------------------- *)
NumSessions == 3
MaxUuids == 2
MaxEvents == 4

(* --------------------------- program constants ------------------------- *)
CLOSE_OK == 1000
CLOSE_UNEXPECTED == 1001

Sessions == 1..NumSessions
Names == {"ep"}
None == 0
NoError == "none"
PeerUnknownError == "PeerUnknownError"
ConnectionClosed == {"ConnectionClosedOK", "ConnectionClosedError"}

VARIABLES
    websocket_to_client,  \* SignalingServer._websocket_to_client
    uuid_to_client,       \* SignalingServer._uuid_to_client
    pc,                   \* per handler: the await it is suspended at
    uuid_,                \* per handler: register's local uuid_ across its await
    name_,                \* per handler: request.name across register's await
    sendTo,               \* per handler: websocket of the pending send
    sendMsg,              \* per handler: message of the pending send
    wsState,              \* per websocket: "open" or "closed"
    closeCalls,           \* per websocket: codes the server passed to close()
    outbox,               \* per websocket: the frame last written to it
    accepted,             \* number of connections the server has accepted
    nuuids,               \* number of uuids in existence (1..nuuids)
    nevents               \* number of client events (frames, closes) so far

vars == <<websocket_to_client, uuid_to_client, pc, uuid_, name_, sendTo,
          sendMsg, wsState, closeCalls, outbox, accepted, nuuids, nevents>>

\* one call of the signaling client's connect() (server.py, lines 240-313)
VARIABLES
    connect_pc,         \* where the call is: "idle", "connect", "send", "recv",
                        \* "received", "done"
    connect_uuid,       \* argument uuid
    connect_name,       \* local name
    connect_timeout,    \* argument timeout
    connect_websocket,  \* the client's connection: "none", "open" or "closed"
    connect_waited,     \* time spent so far in wait_for(websocket.recv(), timeout)
    connect_frame,      \* what websocket.recv() returned
    connect_message,    \* local message
    connect_outcome     \* what the call returned or raised

connectVars == <<connect_pc, connect_uuid, connect_name, connect_timeout,
                 connect_websocket, connect_waited, connect_frame,
                 connect_message, connect_outcome>>

\* one construction of an EndpointConnector (endpoint.py, lines 69-119)
VARIABLES
    init_endpoints,       \* argument endpoints: UUID objects and strings
    available_endpoints,  \* get_configs(...): the local configurations, in scan order
    served,               \* per endpoint uuid: what GET /endpoint at its address does
    init_outcome          \* what __init__ raised, or the home endpoint it found

initVars == <<init_endpoints, available_endpoints, served, init_outcome>>

\* a constructed EndpointConnector and the endpoints it talks to
\* (endpoint.py, lines 162-251)
VARIABLES
    endpoint_uuid,  \* self.endpoint_uuid, the home endpoint
    objects,        \* per endpoint uuid: its local store, object_id -> bytes
    object_ids,     \* number of object ids uuid.uuid4() has produced
    endpoint_op     \* the last operation, with what it returned or raised

endpointVars == <<endpoint_uuid, objects, object_ids, endpoint_op>>

\* RemoteStore objects of several processes on one remote store, for one
\* key (remote.py, lines 125-281)
VARIABLES
    remote_value,      \* the remote store's entry for key: the object, or NoObject
    remote_timestamp,  \* the remote store's entry for key + '_timestamp'
    sets,              \* number of set calls so far; the n-th set writes object n
    last_set,          \* history: the object written by the set that completed last
    cache,             \* per process: self._cache
    remote_pc,         \* per thread: where its call is
    remote_local,      \* per thread: the locals of its call
    remote_result      \* the last call that returned or raised, with its outcome

remoteVars == <<remote_value, remote_timestamp, sets, last_set, cache,
                remote_pc, remote_local, remote_result>>

\* a RemoteFactory of process "a" (remote.py, lines 32-122)
VARIABLES
    factory_evict,   \* self.evict
    factory_strict,  \* self.strict
    obj_future,      \* self._obj_future
    submitted,       \* what _default_pool.submit returned, before line 117 assigns it
    submits,         \* number of gets submitted to the pool so far
    factory_pc,      \* where the call of resolve or resolve_async is
    factory_obj,     \* the local obj of resolve (line 100)
    factory_calls,   \* number of calls of resolve and resolve_async that ended
    factory_result   \* the last call that returned or raised, with its outcome

factoryVars == <<factory_evict, factory_strict, obj_future, submitted, submits, factory_pc,
                 factory_obj, factory_calls, factory_result>>

\* the process-wide backend store (backend/utils.py)
VARIABLES
    ps_store,        \* ps.store
    backend_calls,   \* number of init calls so far
    backend_result   \* the last init call, with what it returned or raised

backendVars == <<ps_store, backend_calls, backend_result>>

\* the endpoint directories and the commands on them (endpoint/commands.py)
VARIABLES
    endpoint_dirs,   \* name -> the directory proxystore_dir/name
    live_pids,       \* the processes alive on this host
    command_calls,   \* number of commands called so far
    command_result   \* the last command, with what it returned

commandVars == <<endpoint_dirs, live_pids, command_calls, command_result>>

\* the peer-connection managers of two endpoints (spec.md 4.4)
VARIABLES
    peer_records,    \* endpoint -> its peer-connection record for the other
    signaling        \* the PeerConnectionMessages in flight

managerVars == <<peer_records, signaling>>

\* the requests multiplexed on the channel of one peer-connection record
\* (spec.md 4.4 Request multiplexing)
VARIABLES
    slots,            \* correlation-id -> state of its completion slot
    completions,      \* correlation-id -> times its slot was completed
    replies,          \* correlation-ids of the Replies in flight
    reply_count,      \* number of Replies the peer sent so far
    request_channel   \* state of the record: OPEN or CLOSED

requestVars == <<slots, completions, replies, reply_count, request_channel>>

\* the variables of the components other than the signaling server
otherVars == <<connectVars, initVars, endpointVars, remoteVars, factoryVars, backendVars, commandVars, managerVars, requestVars>>

\* the variables of the components other than the signaling client
notConnectVars == <<vars, initVars, endpointVars, remoteVars, factoryVars, backendVars, commandVars, managerVars, requestVars>>

\* the variables of the components other than EndpointConnector.__init__
notInitVars == <<vars, connectVars, endpointVars, remoteVars, factoryVars, backendVars, commandVars, managerVars, requestVars>>

\* the variables of the components other than the EndpointConnector operations
notEndpointVars == <<vars, connectVars, initVars, remoteVars, factoryVars, backendVars, commandVars, managerVars, requestVars>>

\* the variables of the components other than the RemoteStores
notRemoteVars == <<vars, connectVars, initVars, endpointVars, factoryVars, backendVars, commandVars, managerVars, requestVars>>

\* the variables of the components other than the backend store
notBackendVars == <<vars, connectVars, initVars, endpointVars, remoteVars, factoryVars, commandVars, managerVars, requestVars>>

\* the variables of the components other than the endpoint commands
notCommandVars ==
    <<vars, connectVars, initVars, endpointVars, remoteVars, factoryVars, backendVars,
      managerVars, requestVars>>

\* the variables of the components other than the peer-connection managers
notManagerVars ==
    <<vars, connectVars, initVars, endpointVars, remoteVars, factoryVars, backendVars,
      commandVars, requestVars>>

\* the variables of the components other than the multiplexed requests
notRequestVars ==
    <<vars, connectVars, initVars, endpointVars, remoteVars, factoryVars, backendVars,
      commandVars, managerVars>>

\* the variables of the components other than the RemoteFactory and its store
notFactoryVars == <<vars, connectVars, initVars, endpointVars, backendVars, commandVars, managerVars, requestVars>>

(* ------------------------------ messages ------------------------------- *)
\* a message is a record of its type and the fields its dataclass has
NoMessage == [type |-> "none"]

PeerRegistrationRequest(uuid, name) ==
    [type |-> "PeerRegistrationRequest", uuid |-> uuid, name |-> name]

PeerRegistrationResponseWith(uuid, error) ==
    [type |-> "PeerRegistrationResponse", uuid |-> uuid, error |-> error]

PeerRegistrationResponse(uuid) == PeerRegistrationResponseWith(uuid, NoError)

PeerConnectionMessage(source_uuid, source_name, peer_uuid, description, error) ==
    [type |-> "PeerConnectionMessage", source_uuid |-> source_uuid,
     source_name |-> source_name, peer_uuid |-> peer_uuid,
     description |-> description, error |-> error]

ServerError(message) ==
    [type |-> "ServerError", message |-> message]

Client(name, uuid, websocket) ==
    [name |-> name, uuid |-> uuid, websocket |-> websocket]

(* ------------------------------ dict helpers --------------------------- *)
DictPop(d, k) == [x \in DOMAIN d \ {k} |-> d[x]]
DictSet(d, k, v) == [x \in DOMAIN d \cup {k} |-> IF x = k THEN v ELSE d[x]]

(* ------------------------------- inputs -------------------------------- *)
\* uuids a client can put in a frame: the ones in existence and a new one
KnownUuids == 1..(IF nuuids < MaxUuids THEN nuuids + 1 ELSE nuuids)

RegistrationFrames ==
    {PeerRegistrationRequest(u, n) : u \in KnownUuids \cup {None}, n \in Names}

ConnectionFrames ==
    {PeerConnectionMessage(s, n, p, "offer", NoError) :
        s \in {1}, n \in Names, p \in KnownUuids}

UnknownFrames == {PeerRegistrationResponse(1), ServerError("x")}

(* -------------------------------- Init --------------------------------- *)
Init ==
    /\ websocket_to_client = <<>>
    /\ uuid_to_client = <<>>
    /\ pc = [w \in Sessions |-> "recv"]
    /\ uuid_ = [w \in Sessions |-> None]
    /\ name_ = [w \in Sessions |-> ""]
    /\ sendTo = [w \in Sessions |-> None]
    /\ sendMsg = [w \in Sessions |-> NoMessage]
    /\ wsState = [w \in Sessions |-> "open"]
    /\ closeCalls = [w \in Sessions |-> {}]
    /\ outbox = [w \in Sessions |-> NoMessage]
    /\ accepted = 0
    /\ nuuids = 0
    /\ nevents = 0

(* ------------------------------ environment ---------------------------- *)
\* one more client event
Event ==
    /\ nevents < MaxEvents
    /\ nevents' = nevents + 1

\* a frame carries uuid u
NewUuid(u) == nuuids' = IF u > nuuids THEN u ELSE nuuids

(* --------------------------- websockets.serve -------------------------- *)
\* serve() starts handler(websocket) for each accepted connection; h is
\* either an accepted connection or the next one to be accepted
Accept(h) ==
    /\ h <= accepted + 1
    /\ accepted' = IF h > accepted THEN h ELSE accepted

(* ------------------------- SignalingServer.send ------------------------ *)
\* mutant: send is started but not awaited, the handler goes back to recv
SendNotAwaited(h, websocket, message) ==
    /\ pc' = [pc EXCEPT ![h] = "recv"]
    /\ sendTo' = [sendTo EXCEPT ![h] = websocket]
    /\ sendMsg' = [sendMsg EXCEPT ![h] = message]

\* await self.send(websocket, message): the handler suspends with the write
\* pending; SendDone completes it.
Send(h, websocket, message) ==
    /\ pc' = [pc EXCEPT ![h] = "send"]
    /\ sendTo' = [sendTo EXCEPT ![h] = websocket]
    /\ sendMsg' = [sendMsg EXCEPT ![h] = message]

\* websocket.send raises ConnectionClosed unless the connection is open
SendRaises(websocket) == wsState[websocket] # "open"

\* where the handler continues when the awaited send has raised: nothing in
\* handler, register or connect catches ConnectionClosed, so the coroutine
\* ends with the exception
AfterSendRaised == "raised"

\* the awaited send completes: the message is written, or send raises; the
\* connection of a handler that has ended is closed by websockets
SendDone(h) ==
    /\ pc[h] = "send"
    /\ IF SendRaises(sendTo[h])
       THEN /\ pc' = [pc EXCEPT ![h] = AfterSendRaised]
            /\ wsState' = [wsState EXCEPT ![h] =
                              IF AfterSendRaised = "raised" THEN "closed" ELSE @]
            /\ UNCHANGED outbox
       ELSE /\ pc' = [pc EXCEPT ![h] = "recv"]
            /\ outbox' = [outbox EXCEPT ![sendTo[h]] = sendMsg[h]]
            /\ UNCHANGED wsState
    /\ sendTo' = [sendTo EXCEPT ![h] = None]
    /\ sendMsg' = [sendMsg EXCEPT ![h] = NoMessage]
    /\ UNCHANGED <<websocket_to_client, uuid_to_client, uuid_, name_,
                   closeCalls, accepted, nuuids, nevents>>

(* ---------------------- SignalingServer.unregister --------------------- *)
\* mutant: unregister removes the client from the by-websocket index only
UnregisterKeepsUuid(websocket, expected) ==
    IF websocket \in DOMAIN websocket_to_client
    THEN LET client == websocket_to_client[websocket] IN
         /\ websocket_to_client' = DictPop(websocket_to_client, websocket)
         /\ uuid_to_client' = uuid_to_client
         /\ closeCalls' = [closeCalls EXCEPT ![client.websocket] =
                              @ \cup {IF expected THEN CLOSE_OK ELSE CLOSE_UNEXPECTED}]
         /\ wsState' = [wsState EXCEPT ![client.websocket] = "closed"]
    ELSE UNCHANGED <<websocket_to_client, uuid_to_client, closeCalls, wsState>>

CloseCode(expected) == IF expected THEN CLOSE_OK ELSE CLOSE_UNEXPECTED

\* unregister finds a client for the websocket (pop did not return None)
UnregisterFinds(websocket) == websocket \in DOMAIN websocket_to_client

\* the part of unregister that runs before its await: both pops and the call
\* of close(code), which puts an open connection into its closing handshake
Unregister(websocket, expected) ==
    IF UnregisterFinds(websocket)
    THEN LET client == websocket_to_client[websocket] IN
         /\ websocket_to_client' = DictPop(websocket_to_client, websocket)
         /\ uuid_to_client' = DictPop(uuid_to_client, client.uuid)
         /\ closeCalls' = [closeCalls EXCEPT ![client.websocket] =
                              @ \cup {CloseCode(expected)}]
         /\ wsState' = [wsState EXCEPT ![client.websocket] = "closed"]
    ELSE UNCHANGED <<websocket_to_client, uuid_to_client, closeCalls, wsState>>

(* ----------------------- SignalingServer.register ---------------------- *)
\* mutant: register mints a uuid whatever the request carries
RegisterUuidAlwaysMints(request) == nuuids + 1

\* lines 78-82: the uuid the registration is made under
RegisterUuid(request) ==
    IF request.uuid = None THEN nuuids + 1 ELSE request.uuid

\* mutant: the response carries no uuid
RegistrationReplyNoUuid(client) == PeerRegistrationResponse(None)

\* lines 114-117: PeerRegistrationResponse(uuid=client.uuid)
RegistrationReply(client) == PeerRegistrationResponse(client.uuid)

\* lines 96-102 and 114-117: bind the new client in both indices and send
\* the response
RegisterBind(h, name, uuid) ==
    LET client == Client(name, uuid, h) IN
    /\ websocket_to_client' = DictSet(websocket_to_client, h, client)
    /\ uuid_to_client' = DictSet(uuid_to_client, client.uuid, client)
    /\ Send(h, h, RegistrationReply(client))

\* recv returned a PeerRegistrationRequest: register up to its first await
RecvRegister(h, request) ==
    /\ pc[h] = "recv"
    /\ wsState[h] = "open"
    /\ Accept(h)
    /\ Event
    /\ request.uuid = None => nuuids < MaxUuids
    /\ NewUuid(RegisterUuid(request))
    /\ LET u == RegisterUuid(request) IN
       IF h \notin DOMAIN websocket_to_client
       THEN IF u \in DOMAIN uuid_to_client /\ UnregisterFinds(uuid_to_client[u].websocket)
            THEN \* await self.unregister(old websocket, False) suspends in close
                 /\ Unregister(uuid_to_client[u].websocket, FALSE)
                 /\ pc' = [pc EXCEPT ![h] = "register_unregister"]
                 /\ uuid_' = [uuid_ EXCEPT ![h] = u]
                 /\ name_' = [name_ EXCEPT ![h] = request.name]
                 /\ UNCHANGED <<sendTo, sendMsg, outbox>>
            ELSE \* no unregister, or one that returns at once
                 /\ RegisterBind(h, request.name, u)
                 /\ UNCHANGED <<uuid_, name_, wsState, closeCalls, outbox>>
       ELSE /\ Send(h, h, RegistrationReply(websocket_to_client[h]))
            /\ UNCHANGED <<websocket_to_client, uuid_to_client, uuid_, name_,
                           wsState, closeCalls, outbox>>

\* register resumes after the awaited unregister of the old websocket
RegisterResume(h) ==
    /\ pc[h] = "register_unregister"
    /\ RegisterBind(h, name_[h], uuid_[h])
    /\ uuid_' = [uuid_ EXCEPT ![h] = None]
    /\ name_' = [name_ EXCEPT ![h] = ""]
    /\ UNCHANGED <<wsState, closeCalls, outbox, accepted, nuuids, nevents>>

(* ------------------------ SignalingServer.connect ---------------------- *)
\* mutant: the reply to the sender carries no error
UnknownPeerReplyNoError(client, message) ==
    PeerConnectionMessage(client.uuid, client.name, message.peer_uuid, "", NoError)

UnknownPeerReply(client, message) ==
    PeerConnectionMessage(client.uuid, client.name, message.peer_uuid, "",
                          PeerUnknownError)

\* mutant: the peer is looked up under the message's source_uuid
ForwardTargetOfSource(message) ==
    IF message.source_uuid \in DOMAIN uuid_to_client
    THEN uuid_to_client[message.source_uuid].websocket
    ELSE uuid_to_client[message.peer_uuid].websocket

\* lines 175-180: the websocket the message is forwarded on
ForwardTarget(message) == uuid_to_client[message.peer_uuid].websocket

Connect(h, message) ==
    LET client == websocket_to_client[h] IN
    IF message.peer_uuid \notin DOMAIN uuid_to_client
    THEN Send(h, h, UnknownPeerReply(client, message))
    ELSE Send(h, ForwardTarget(message), message)

(* ------------------------ SignalingServer.handler ---------------------- *)
\* mutants: the two error replies carry each other's text
NotRegisteredErrorOtherText == ServerError("unknown request type")
UnknownRequestErrorOtherText == ServerError("client has not registered yet")

NotRegisteredError == ServerError("client has not registered yet")
UnknownRequestError == ServerError("unknown request type")

\* recv returned a PeerConnectionMessage
RecvConnect(h, message) ==
    /\ pc[h] = "recv"
    /\ wsState[h] = "open"
    /\ Accept(h)
    /\ Event
    /\ NewUuid(message.peer_uuid)
    /\ IF h \in DOMAIN websocket_to_client
       THEN Connect(h, message)
       ELSE Send(h, h, NotRegisteredError)
    /\ UNCHANGED <<websocket_to_client, uuid_to_client, uuid_, name_, wsState,
                   closeCalls, outbox>>

\* recv returned a message of any other type
RecvUnknown(h, message) ==
    /\ pc[h] = "recv"
    /\ wsState[h] = "open"
    /\ Accept(h)
    /\ Event
    /\ Send(h, h, UnknownRequestError)
    /\ UNCHANGED <<websocket_to_client, uuid_to_client, uuid_, name_, wsState,
                   closeCalls, outbox, nuuids>>

\* mutant: a frame that fails to deserialize ends the handler
RecvUndecodableEndsSession(h) ==
    /\ pc[h] = "recv"
    /\ wsState[h] = "open"
    /\ Accept(h)
    /\ Event
    /\ pc' = [pc EXCEPT ![h] = "done"]
    /\ UNCHANGED <<websocket_to_client, uuid_to_client, uuid_, name_,
                   sendTo, sendMsg, wsState, closeCalls, outbox, nuuids>>

\* deserialize raised SerializationError: log and continue
RecvUndecodable(h) ==
    /\ pc[h] = "recv"
    /\ wsState[h] = "open"
    /\ Accept(h)
    /\ Event
    /\ UNCHANGED <<websocket_to_client, uuid_to_client, pc, uuid_, name_,
                   sendTo, sendMsg, wsState, closeCalls, outbox, nuuids>>

\* mutant: every closed connection is unregistered as expected
UnregisterExpectedAlways(exception) == TRUE

\* the expected argument the handler gives unregister for each exception
UnregisterExpected(exception) == exception = "ConnectionClosedOK"

\* recv raised ConnectionClosedOK or ConnectionClosedError
RecvClosed(h, exception) ==
    /\ pc[h] = "recv"
    /\ wsState[h] # "open"
    /\ Unregister(h, UnregisterExpected(exception))
    /\ pc' = [pc EXCEPT ![h] = IF UnregisterFinds(h) THEN "unregister" ELSE "done"]
    /\ UNCHANGED <<uuid_, name_, sendTo, sendMsg, outbox, accepted, nuuids, nevents>>

\* the close awaited by the handler's unregister returns; break
UnregisterDone(h) ==
    /\ pc[h] = "unregister"
    /\ pc' = [pc EXCEPT ![h] = "done"]
    /\ UNCHANGED <<websocket_to_client, uuid_to_client, uuid_, name_, sendTo,
                   sendMsg, wsState, closeCalls, outbox, accepted, nuuids, nevents>>

\* the client closes its connection, or the connection fails
ClientClose(w) ==
    /\ wsState[w] = "open"
    /\ Accept(w)
    /\ Event
    /\ wsState' = [wsState EXCEPT ![w] = "closed"]
    /\ UNCHANGED <<websocket_to_client, uuid_to_client, pc, uuid_, name_,
                   sendTo, sendMsg, closeCalls, outbox, nuuids>>

Next ==
    \/ \E h \in Sessions : \E r \in RegistrationFrames : RecvRegister(h, r) /\ UNCHANGED otherVars
    \/ \E h \in Sessions : \E m \in ConnectionFrames : RecvConnect(h, m) /\ UNCHANGED otherVars
    \/ \E h \in Sessions : \E m \in UnknownFrames : RecvUnknown(h, m) /\ UNCHANGED otherVars
    \/ \E h \in Sessions : RecvUndecodable(h) /\ UNCHANGED otherVars
    \/ \E h \in Sessions : \E e \in ConnectionClosed : RecvClosed(h, e) /\ UNCHANGED otherVars
    \/ \E h \in Sessions : RegisterResume(h) /\ UNCHANGED otherVars
    \/ \E h \in Sessions : SendDone(h) /\ UNCHANGED otherVars
    \/ \E h \in Sessions : UnregisterDone(h) /\ UNCHANGED otherVars
    \/ \E w \in Sessions : ClientClose(w) /\ UNCHANGED otherVars

(* =============================== claims ================================ *)
Clients ==
    {websocket_to_client[w] : w \in DOMAIN websocket_to_client}
        \cup {uuid_to_client[u] : u \in DOMAIN uuid_to_client}

RegistryUnchanged == UNCHANGED <<websocket_to_client, uuid_to_client>>

\* handler h leaves the await it is suspended at
Leaves(h, at) == pc[h] = at /\ pc'[h] # at

\* C1: at every await boundary the two indices hold the same clients: every
\* client c found in either index is the value of by-transport[c.websocket]
\* and of by-uuid[c.uuid].
C1_IndicesAgree ==
    \A c \in Clients :
        /\ c.websocket \in DOMAIN websocket_to_client
        /\ websocket_to_client[c.websocket] = c
        /\ c.uuid \in DOMAIN uuid_to_client
        /\ uuid_to_client[c.uuid] = c

\* C6: once a session's handler has ended, by its break or by an exception
\* raised from a send, neither index holds an entry for its transport.
C6_NoEntryAfterHandlerEnds ==
    \A h \in Sessions :
        pc[h] \in {"done", "raised"} =>
            /\ h \notin DOMAIN websocket_to_client
            /\ \A u \in DOMAIN uuid_to_client : uuid_to_client[u].websocket # h

\* C2: a PeerRegistrationRequest on a not-yet-registered transport h whose
\* uuid is bound to another transport old takes old out of both indices and
\* closes it with code 1001 while h is still unbound; register then binds the
\* uuid to h and sends h a PeerRegistrationResponse with that uuid, which h
\* receives unless its connection has closed.
C2_ReplaceOldBeforeBind ==
    /\ [][\A h \in Sessions : Leaves(h, "recv") =>
          \A r \in RegistrationFrames :
            (/\ h \notin DOMAIN websocket_to_client
             /\ r.uuid \in DOMAIN uuid_to_client
             /\ RecvRegister(h, r))
            => LET old == uuid_to_client[r.uuid].websocket IN
               /\ old # h
               /\ old \notin DOMAIN websocket_to_client'
               /\ r.uuid \notin DOMAIN uuid_to_client'
               /\ closeCalls'[old] = closeCalls[old] \cup {1001}
               /\ wsState'[old] = "closed"
               /\ h \notin DOMAIN websocket_to_client'
               /\ pc'[h] = "register_unregister"
               /\ uuid_'[h] = r.uuid]_vars
    /\ [][\A h \in Sessions :
            Leaves(h, "register_unregister")
            => /\ h \in DOMAIN websocket_to_client'
               /\ websocket_to_client'[h].uuid = uuid_[h]
               /\ uuid_[h] \in DOMAIN uuid_to_client'
               /\ uuid_to_client'[uuid_[h]].websocket = h
               /\ pc'[h] = "send"
               /\ sendTo'[h] = h
               /\ sendMsg'[h] = PeerRegistrationResponse(uuid_[h])]_vars
    /\ [][\A h \in Sessions :
            (Leaves(h, "send") /\ wsState[sendTo[h]] = "open")
            => outbox'[sendTo[h]] = sendMsg[h]]_vars

\* C2 witness: transport h holds the uuid that the closed transport old had
\* registered, old was closed with 1001, and h has received the response.
C2_Witness ==
    \E h \in Sessions : \E old \in Sessions \ {h} :
        /\ h \in DOMAIN websocket_to_client
        /\ old \notin DOMAIN websocket_to_client
        /\ 1001 \in closeCalls[old]
        /\ uuid_to_client[websocket_to_client[h].uuid].websocket = h
        /\ outbox[old] = PeerRegistrationResponse(websocket_to_client[h].uuid)
        /\ outbox[h] = PeerRegistrationResponse(websocket_to_client[h].uuid)

\* C3 as stated: on a session that has not registered, every decoded frame
\* other than a PeerRegistrationRequest is answered with
\* ServerError("client has not registered yet") and leaves the registry as
\* it was.
C3_AnyFrameBeforeRegistration ==
    [][\A h \in Sessions :
          (/\ Leaves(h, "recv")
           /\ h \notin DOMAIN websocket_to_client
           /\ \/ \E m \in ConnectionFrames : RecvConnect(h, m)
              \/ \E m \in UnknownFrames : RecvUnknown(h, m))
          => /\ sendTo'[h] = h
             /\ sendMsg'[h] = ServerError("client has not registered yet")
             /\ RegistryUnchanged]_vars

\* C3 amended: on a session that has not registered, a PeerConnectionMessage
\* is answered with ServerError("client has not registered yet"), a decoded
\* frame of any other non-registration type with ServerError("unknown request
\* type"), and either way the registry is left as it was.
C3_FrameBeforeRegistration ==
    [][\A h \in Sessions :
          (Leaves(h, "recv") /\ h \notin DOMAIN websocket_to_client)
          => /\ \A m \in ConnectionFrames :
                   RecvConnect(h, m)
                   => /\ sendTo'[h] = h
                      /\ sendMsg'[h] = ServerError("client has not registered yet")
                      /\ RegistryUnchanged
             /\ \A m \in UnknownFrames :
                   RecvUnknown(h, m)
                   => /\ sendTo'[h] = h
                      /\ sendMsg'[h] = ServerError("unknown request type")
                      /\ RegistryUnchanged]_vars

\* C3 witness: an unregistered transport has received the not-registered error.
C3_Witness ==
    \E h \in Sessions :
        /\ h \notin DOMAIN websocket_to_client
        /\ closeCalls[h] = {}
        /\ outbox[h] = ServerError("client has not registered yet")

\* what completing a pending send may change in the outboxes: the message is
\* written to its target, or nothing is written at all
OnlyTargetReceives(h) ==
    /\ \A w \in Sessions \ {sendTo[h]} : outbox'[w] = outbox[w]
    /\ \/ outbox'[sendTo[h]] = sendMsg[h]
       \/ outbox'[sendTo[h]] = outbox[sendTo[h]]
    /\ wsState[sendTo[h]] = "open" => outbox'[sendTo[h]] = sendMsg[h]

\* C4 as stated: a PeerConnectionMessage from a registered client to a bound
\* peer_uuid is sent unmodified on the transport bound to peer_uuid and on no
\* other; the sender receives nothing; the registry is unchanged.
C4_ForwardNeverToSender ==
    [][\A h \in Sessions : Leaves(h, "recv") =>
        \A m \in ConnectionFrames :
          (/\ h \in DOMAIN websocket_to_client
           /\ m.peer_uuid \in DOMAIN uuid_to_client
           /\ RecvConnect(h, m))
          => /\ sendTo'[h] = uuid_to_client[m.peer_uuid].websocket
             /\ sendMsg'[h] = m
             /\ sendTo'[h] # h
             /\ \A w \in Sessions : outbox'[w] = outbox[w]
             /\ RegistryUnchanged]_vars

\* C4 amended: the message is sent unmodified on the transport bound to
\* peer_uuid and on no other, so the sender receives nothing unless peer_uuid
\* is bound to the sender's own transport; the registry is unchanged.
C4_ForwardToBoundPeer ==
    /\ [][\A h \in Sessions : Leaves(h, "recv") =>
          \A m \in ConnectionFrames :
            (/\ h \in DOMAIN websocket_to_client
             /\ m.peer_uuid \in DOMAIN uuid_to_client
             /\ RecvConnect(h, m))
            => /\ sendTo'[h] = uuid_to_client[m.peer_uuid].websocket
               /\ sendMsg'[h] = m
               /\ \A w \in Sessions : outbox'[w] = outbox[w]
               /\ \A g \in Sessions \ {h} :
                     sendTo'[g] = sendTo[g] /\ sendMsg'[g] = sendMsg[g]
               /\ RegistryUnchanged]_vars
    /\ [][\A h \in Sessions :
            (Leaves(h, "send") /\ sendMsg[h].type = "PeerConnectionMessage")
            => OnlyTargetReceives(h) /\ RegistryUnchanged]_vars

\* C4 witness: a registered transport t other than the sender has received
\* the forwarded message addressed to its uuid.
C4_Witness ==
    \E h \in DOMAIN websocket_to_client : \E t \in DOMAIN websocket_to_client :
        /\ h # t
        /\ outbox[h] = PeerRegistrationResponse(websocket_to_client[h].uuid)
        /\ outbox[t] \in ConnectionFrames
        /\ outbox[t].peer_uuid = websocket_to_client[t].uuid
        /\ uuid_to_client[websocket_to_client[t].uuid].websocket = t

\* C5: a PeerConnectionMessage from a registered client to a peer_uuid that
\* is not bound is answered to the sender alone with a PeerConnectionMessage
\* that has the same peer_uuid and error PeerUnknown; no other transport is
\* sent anything, the registry is unchanged and the sender stays registered.
C5_UnknownPeerReply ==
    /\ [][\A h \in Sessions : Leaves(h, "recv") =>
          \A m \in ConnectionFrames :
            (/\ h \in DOMAIN websocket_to_client
             /\ m.peer_uuid \notin DOMAIN uuid_to_client
             /\ RecvConnect(h, m))
            => /\ sendTo'[h] = h
               /\ sendMsg'[h].type = "PeerConnectionMessage"
               /\ sendMsg'[h].peer_uuid = m.peer_uuid
               /\ sendMsg'[h].error = "PeerUnknownError"
               /\ \A w \in Sessions : outbox'[w] = outbox[w]
               /\ \A g \in Sessions \ {h} :
                     sendTo'[g] = sendTo[g] /\ sendMsg'[g] = sendMsg[g]
               /\ RegistryUnchanged
               /\ h \in DOMAIN websocket_to_client']_vars
    /\ [][\A h \in Sessions :
            (/\ Leaves(h, "send")
             /\ sendMsg[h].type = "PeerConnectionMessage"
             /\ sendMsg[h].error = "PeerUnknownError")
            => /\ sendTo[h] = h
               /\ OnlyTargetReceives(h)
               /\ RegistryUnchanged]_vars

\* C5 witness: a registered sender has received the PeerUnknown reply and is
\* reading again; no other transport has received anything.
C5_Witness ==
    \E h \in DOMAIN websocket_to_client :
        /\ pc[h] = "recv"
        /\ outbox[h].type = "PeerConnectionMessage"
        /\ outbox[h].error = "PeerUnknownError"
        /\ outbox[h].peer_uuid \notin DOMAIN uuid_to_client
        /\ \A w \in Sessions \ {h} : outbox[w] = NoMessage

\* C7: when recv ends with a clean close on a session that is registered, its
\* client leaves both indices and close is called with code 1000; with an
\* error close, the same with code 1001; in both cases, and on an
\* unregistered session too, the handler then leaves its loop and receives
\* no further frame.
C7_CloseTerminatesSession ==
    /\ [][\A h \in Sessions :
            (Leaves(h, "recv") /\ wsState[h] = "closed"
                /\ h \in DOMAIN websocket_to_client)
            => /\ h \notin DOMAIN websocket_to_client'
               /\ websocket_to_client[h].uuid \notin DOMAIN uuid_to_client'
               /\ \/ closeCalls'[h] = closeCalls[h] \cup {1000}
                  \/ closeCalls'[h] = closeCalls[h] \cup {1001}
               /\ pc'[h] = "unregister"]_vars
    /\ [][\A h \in Sessions : Leaves(h, "recv") =>
          \A e \in ConnectionClosed :
            (h \in DOMAIN websocket_to_client /\ RecvClosed(h, e))
            => closeCalls'[h] = closeCalls[h] \cup
                  {IF e = "ConnectionClosedOK" THEN 1000 ELSE 1001}]_vars
    /\ [][\A h \in Sessions :
            (Leaves(h, "recv") /\ wsState[h] = "closed")
            => pc'[h] \in {"unregister", "done"}]_vars
    /\ [][\A h \in Sessions :
            pc[h] \in {"unregister", "done"}
            => /\ pc'[h] \in {pc[h], "done"}
               /\ sendTo'[h] = sendTo[h]
               /\ sendMsg'[h] = sendMsg[h]
               /\ pc'[h] # pc[h] =>
                     /\ RegistryUnchanged
                     /\ closeCalls' = closeCalls
                     /\ outbox' = outbox]_vars

\* C7 witness: one registered session has ended after a clean close with
\* code 1000, another after an error close with code 1001.
C7_Witness ==
    \E h \in Sessions : \E g \in Sessions :
        /\ pc[h] = "done" /\ closeCalls[h] = {1000}
        /\ pc[g] = "done" /\ closeCalls[g] = {1001}
        /\ outbox[h] # NoMessage /\ outbox[g] # NoMessage
        /\ websocket_to_client = <<>>

\* C8: when the target of a forwarded PeerConnectionMessage has disconnected
\* (its connection is closed and its handler has not unregistered it yet),
\* the failed forward leaves the sender's session running (it goes on to its
\* next recv) and its registry entry as it was.
C8_FailedForwardKeepsSender ==
    [][\A h \in Sessions :
          (/\ Leaves(h, "send")
           /\ sendTo[h] # h
           /\ sendMsg[h].type = "PeerConnectionMessage"
           /\ sendTo[h] \in DOMAIN websocket_to_client
           /\ closeCalls[sendTo[h]] = {}
           /\ wsState[sendTo[h]] = "closed")
          => /\ pc'[h] = "recv"
             /\ wsState'[h] = wsState[h]
             /\ RegistryUnchanged]_vars

\* C9 as stated: every PeerRegistrationRequest is answered on its transport
\* with a PeerRegistrationResponse carrying the request's uuid, or a minted
\* one when the request has none.
C9_ResponseCarriesRequestUuid ==
    [][\A h \in Sessions : Leaves(h, "recv") =>
        \A r \in RegistrationFrames :
          (pc'[h] = "send" /\ RecvRegister(h, r))
          => /\ sendTo'[h] = h
             /\ sendMsg'[h].type = "PeerRegistrationResponse"
             /\ r.uuid # None => sendMsg'[h].uuid = r.uuid
             /\ r.uuid = None => sendMsg'[h].uuid \notin 1..nuuids]_vars

\* C9 amended: a PeerRegistrationRequest on a transport that is not yet
\* registered is answered on that transport with a PeerRegistrationResponse
\* carrying the request's uuid, or a fresh server-minted one when the request
\* has none, and when the response is sent that uuid is bound to the
\* transport in both indices; on a transport that is already registered the
\* response carries the uuid the transport is registered under.
C9_ResponseCarriesBoundUuid ==
    /\ [][\A h \in Sessions : Leaves(h, "recv") =>
          \A r \in RegistrationFrames :
            (h \notin DOMAIN websocket_to_client /\ RecvRegister(h, r))
            => LET u == IF pc'[h] = "send" THEN sendMsg'[h].uuid ELSE uuid_'[h] IN
               /\ pc'[h] \in {"send", "register_unregister"}
               /\ r.uuid # None => u = r.uuid
               /\ r.uuid = None =>
                     /\ u \notin 1..nuuids
                     /\ u \notin DOMAIN uuid_to_client
                     /\ u \in 1..nuuids'
                     /\ pc'[h] = "send"]_vars
    /\ [][\A h \in Sessions :
            (pc[h] \in {"recv", "register_unregister"} /\ pc'[h] = "send"
                /\ sendMsg'[h].type = "PeerRegistrationResponse")
            => /\ sendTo'[h] = h
               /\ h \in DOMAIN websocket_to_client'
               /\ websocket_to_client'[h].uuid = sendMsg'[h].uuid
               /\ h \notin DOMAIN websocket_to_client =>
                     /\ sendMsg'[h].uuid \in DOMAIN uuid_to_client'
                     /\ uuid_to_client'[sendMsg'[h].uuid] = websocket_to_client'[h]
                     /\ websocket_to_client'[h].websocket = h
               /\ h \in DOMAIN websocket_to_client =>
                     /\ sendMsg'[h].uuid = websocket_to_client[h].uuid
                     /\ RegistryUnchanged
               /\ pc[h] = "register_unregister" => sendMsg'[h].uuid = uuid_[h]]_vars

\* C9 witness: after two registration requests, two transports have each
\* received a response carrying a uuid of its own, bound to it in both indices.
C9_Witness ==
    \E h \in DOMAIN websocket_to_client : \E g \in DOMAIN websocket_to_client :
        /\ h # g
        /\ outbox[h] = PeerRegistrationResponse(websocket_to_client[h].uuid)
        /\ outbox[g] = PeerRegistrationResponse(websocket_to_client[g].uuid)
        /\ uuid_to_client[websocket_to_client[h].uuid].websocket = h
        /\ uuid_to_client[websocket_to_client[g].uuid].websocket = g
        /\ websocket_to_client[h].uuid # websocket_to_client[g].uuid
        /\ nevents = 2

\* C10: a decoded frame that is neither a PeerRegistrationRequest nor a
\* PeerConnectionMessage is answered on its transport with
\* ServerError("unknown request type"), changes nothing in the registry and
\* leaves the session running: once the reply is written the handler is
\* back at recv.
C10_UnknownRequestType ==
    /\ [][\A h \in Sessions : Leaves(h, "recv") =>
          \A m \in UnknownFrames :
            RecvUnknown(h, m)
            => /\ sendTo'[h] = h
               /\ sendMsg'[h] = ServerError("unknown request type")
               /\ pc'[h] = "send"
               /\ wsState' = wsState
               /\ closeCalls' = closeCalls
               /\ \A g \in Sessions \ {h} : pc'[g] = pc[g]
               /\ RegistryUnchanged]_vars
    /\ [][\A h \in Sessions :
            (/\ Leaves(h, "send")
             /\ sendMsg[h] = ServerError("unknown request type")
             /\ wsState[h] = "open")
            => /\ pc'[h] = "recv"
               /\ outbox'[h] = sendMsg[h]
               /\ wsState'[h] = "open"
               /\ RegistryUnchanged]_vars

\* C10 witness: a registered session and an unregistered one have each
\* received the unknown-request-type error and are reading again.
C10_Witness ==
    \E h \in DOMAIN websocket_to_client : \E g \in Sessions \ DOMAIN websocket_to_client :
        /\ pc[h] = "recv" /\ pc[g] = "recv"
        /\ wsState[h] = "open" /\ wsState[g] = "open"
        /\ outbox[h] = ServerError("unknown request type")
        /\ outbox[g] = ServerError("unknown request type")

\* the state of handler h's coroutine: where it is suspended and its locals
HandlerState(h) == <<pc[h], sendTo[h], sendMsg[h], uuid_[h], name_[h]>>

\* C11: a frame that fails to deserialize is dropped: no reply is started or
\* written, the registry, the connections and the close calls are as before,
\* and the handler is at recv on a connection that is still open, where it
\* reads the next frame of the session.
C11_UndecodableFrameDropped ==
    [][\A h \in Sessions :
          (nevents' # nevents /\ RecvUndecodable(h))
          => /\ pc'[h] = "recv"
             /\ wsState'[h] = "open"
             /\ \A g \in Sessions : HandlerState(g)' = HandlerState(g)
             /\ outbox' = outbox
             /\ wsState' = wsState
             /\ closeCalls' = closeCalls
             /\ RegistryUnchanged]_vars

\* C11 witness: the first frame of connection 1 was dropped (nothing was
\* written, nothing is closed) and its second frame, a registration request,
\* has been processed: the client is bound and the response is being sent.
C11_Witness ==
    /\ accepted = 1
    /\ nevents = 2
    /\ wsState[1] = "open"
    /\ outbox[1] = NoMessage
    /\ 1 \in DOMAIN websocket_to_client
    /\ pc[1] = "send"
    /\ sendMsg[1] = PeerRegistrationResponse(websocket_to_client[1].uuid)

\* C12: a session's handler takes a frame only when nothing of the frame
\* before is outstanding (it is at recv with no pending send and no pending
\* unregister of register), a handler leaves a pending send for recv only
\* by completing the write, and while handling is pending the handler's
\* state changes by no client event.
C12_FramesSerialisedPerTransport ==
    /\ [][\A h \in Sessions :
            (nevents' # nevents /\ HandlerState(h)' # HandlerState(h))
            => /\ pc[h] = "recv"
               /\ sendTo[h] = None
               /\ sendMsg[h] = NoMessage
               /\ uuid_[h] = None
               /\ \A g \in Sessions \ {h} : HandlerState(g)' = HandlerState(g)]_vars
    /\ [][\A h \in Sessions :
            (pc[h] = "send" /\ pc'[h] = "recv")
            => /\ outbox'[sendTo[h]] = sendMsg[h]
               /\ sendMsg'[h] = NoMessage]_vars
    /\ [][\A h \in Sessions :
            (pc[h] = "register_unregister" /\ pc'[h] # pc[h])
            => pc'[h] = "send" /\ nevents' = nevents]_vars

\* C12 witness: the handling of a frame of session h and of a frame of
\* session g are both pending: h awaits its send while g awaits the
\* unregister of the transport it replaces.
C12_Witness ==
    \E h \in Sessions : \E g \in Sessions \ {h} :
        /\ pc[h] = "send"
        /\ sendMsg[h] # NoMessage
        /\ pc[g] = "register_unregister"
        /\ uuid_[g] # None

\* C32: a step that takes a transport w out of the by-transport index
\* (unregister, from w's own close or from a re-registration of its uuid)
\* leaves by-transport[w2] and by-uuid[uuid of w2] as they were for every
\* other registered transport w2.
C32_UnregisterRemovesOnlyItsEntry ==
    [][\A w \in Sessions :
         (w \in DOMAIN websocket_to_client /\ w \notin DOMAIN websocket_to_client') =>
            \A w2 \in DOMAIN websocket_to_client \ {w} :
               LET u2 == websocket_to_client[w2].uuid IN
               /\ w2 \in DOMAIN websocket_to_client'
               /\ websocket_to_client'[w2] = websocket_to_client[w2]
               /\ u2 \in DOMAIN uuid_to_client <=> u2 \in DOMAIN uuid_to_client'
               /\ u2 \in DOMAIN uuid_to_client =>
                     uuid_to_client'[u2] = uuid_to_client[u2]]_vars

\* C33: a PeerRegistrationRequest on a transport h that is registered
\* leaves both indices as they are, closes no transport and sends h a
\* PeerRegistrationResponse with the uuid h is registered under, whatever
\* uuid the request carries; h receives it unless its connection has closed.
C33_RegisteredTransportKeepsUuid ==
    /\ [][\A h \in Sessions : Leaves(h, "recv") =>
          \A r \in RegistrationFrames :
            (h \in DOMAIN websocket_to_client /\ RecvRegister(h, r)) =>
               /\ RegistryUnchanged
               /\ UNCHANGED <<closeCalls, wsState>>
               /\ pc'[h] = "send"
               /\ sendTo'[h] = h
               /\ sendMsg'[h] = PeerRegistrationResponse(websocket_to_client[h].uuid)]_vars
    /\ [][\A h \in Sessions :
            (/\ Leaves(h, "send")
             /\ h \in DOMAIN websocket_to_client
             /\ sendMsg[h] = PeerRegistrationResponse(websocket_to_client[h].uuid)
             /\ wsState[h] = "open")
            => outbox'[h] = sendMsg[h]]_vars

\* C33 witness: h has received the response of its registration and is
\* being sent the same response again, for a second request
C33_Witness ==
    \E h \in Sessions :
        /\ h \in DOMAIN websocket_to_client
        /\ outbox[h] = PeerRegistrationResponse(websocket_to_client[h].uuid)
        /\ pc[h] = "send"
        /\ sendTo[h] = h
        /\ sendMsg[h] = outbox[h]
        /\ closeCalls[h] = {}

(* ================== signaling client: connect() ======================= *)
MaxTimeout == 2

\* gethostname()
HostName == "host"

\* name=None
NoName == ""

\* bytes that deserialize() rejects with SerializationError
Undecodable == [type |-> "undecodable"]

\* exceptions of websockets.connect: the address does not answer, the
\* handshake is refused, or open_timeout passes
OpenExceptions == {"OSError", "InvalidHandshake", "TimeoutError"}

NoOutcome == [kind |-> "none"]
Returned(uuid, name, websocket) ==
    [kind |-> "return", uuid |-> uuid, name |-> name, websocket |-> websocket]
Raised(exception) == [kind |-> "raise", exception |-> exception]

\* what the server, or whatever answers at the address, may send
ResponseFrames ==
    {PeerRegistrationResponseWith(u, e) :
        u \in 1..MaxUuids, e \in {NoError, "PeerRegistrationError"}}
    \cup {ServerError("x"), PeerConnectionMessage(1, "ep", 2, "offer", NoError),
          Undecodable}

ConnectInit ==
    /\ connect_pc = "idle"
    /\ connect_uuid = None
    /\ connect_name = NoName
    /\ connect_timeout = 0
    /\ connect_websocket = "none"
    /\ connect_waited = 0
    /\ connect_frame = NoMessage
    /\ connect_message = NoMessage
    /\ connect_outcome = NoOutcome

\* the call ends with an exception
ConnectRaise(exception) ==
    /\ connect_pc' = "done"
    /\ connect_outcome' = Raised(exception)

\* lines 269-277: connect(address, uuid, name, timeout) up to its first await
ConnectCall(uuid, name, timeout) ==
    /\ connect_pc = "idle"
    /\ connect_uuid' = uuid
    /\ connect_name' = IF name = NoName THEN HostName ELSE name
    /\ connect_timeout' = timeout
    /\ connect_pc' = "connect"
    /\ UNCHANGED <<connect_websocket, connect_waited, connect_frame,
                   connect_message, connect_outcome>>

\* lines 277-280: websockets.connect returns the connection
ConnectOpened ==
    /\ connect_pc = "connect"
    /\ connect_websocket' = "open"
    /\ connect_pc' = "send"
    /\ UNCHANGED <<connect_uuid, connect_name, connect_timeout, connect_waited,
                   connect_frame, connect_message, connect_outcome>>

\* lines 277-280: websockets.connect raises; nothing in connect catches it
ConnectOpenFailed(exception) ==
    /\ connect_pc = "connect"
    /\ ConnectRaise(exception)
    /\ UNCHANGED <<connect_uuid, connect_name, connect_timeout,
                   connect_websocket, connect_waited, connect_frame,
                   connect_message>>

\* the server or the network closes the connection while connect awaits
ConnectionCloses ==
    /\ connect_pc \in {"send", "recv", "received"}
    /\ connect_websocket = "open"
    /\ connect_websocket' = "closed"
    /\ UNCHANGED <<connect_pc, connect_uuid, connect_name, connect_timeout,
                   connect_waited, connect_frame, connect_message,
                   connect_outcome>>

\* lines 281-283: await websocket.send(request) is outside the try: on a
\* closed connection its ConnectionClosed leaves connect as it is
ConnectSendDone ==
    /\ connect_pc = "send"
    /\ IF connect_websocket # "open"
       THEN ConnectRaise("ConnectionClosed")
       ELSE connect_pc' = "recv" /\ UNCHANGED connect_outcome
    /\ UNCHANGED <<connect_uuid, connect_name, connect_timeout,
                   connect_websocket, connect_waited, connect_frame,
                   connect_message>>

\* time passes while connect is suspended in
\* wait_for(websocket.recv(), timeout)
ConnectWait ==
    /\ connect_pc \in {"recv", "received"}
    /\ connect_waited < connect_timeout
    /\ connect_waited' = connect_waited + 1
    /\ UNCHANGED <<connect_pc, connect_uuid, connect_name, connect_timeout,
                   connect_websocket, connect_frame, connect_message,
                   connect_outcome>>

\* lines 293-296: the deadline passes before recv returned, and wait_for
\* raises asyncio.TimeoutError
ConnectRecvTimeout ==
    /\ connect_pc = "recv"
    /\ connect_waited = connect_timeout
    /\ ConnectRaise("PeerRegistrationError")
    /\ UNCHANGED <<connect_uuid, connect_name, connect_timeout,
                   connect_websocket, connect_waited, connect_frame,
                   connect_message>>

\* lines 288-292: recv raises ConnectionClosed
ConnectRecvClosed ==
    /\ connect_pc = "recv"
    /\ connect_websocket = "closed"
    /\ ConnectRaise("PeerRegistrationError")
    /\ UNCHANGED <<connect_uuid, connect_name, connect_timeout,
                   connect_websocket, connect_waited, connect_frame,
                   connect_message>>

\* lines 298-313: what connect does with the decoded message
ConnectResult(message) ==
    IF message.type = "PeerRegistrationResponse"
    THEN IF message.error # NoError
         THEN Raised("PeerRegistrationError")
         ELSE Returned(message.uuid, connect_name, connect_websocket)
    ELSE Raised("PeerRegistrationError")

\* line 286: websocket.recv() returns a frame within the timeout, in its own
\* task; connect is still suspended in wait_for
ConnectRecvFrame(frame) ==
    /\ connect_pc = "recv"
    /\ connect_websocket = "open"
    /\ connect_waited < connect_timeout
    /\ connect_pc' = "received"
    /\ connect_frame' = frame
    /\ UNCHANGED <<connect_uuid, connect_name, connect_timeout,
                   connect_websocket, connect_waited, connect_message,
                   connect_outcome>>

\* lines 284-313: the event loop resumes connect with the frame; the try
\* around deserialize has no except clause for SerializationError
ConnectResume ==
    /\ connect_pc = "received"
    /\ connect_pc' = "done"
    /\ IF connect_frame = Undecodable
       THEN /\ connect_outcome' = Raised("SerializationError")
            /\ UNCHANGED connect_message
       ELSE /\ connect_message' = connect_frame
            /\ connect_outcome' = ConnectResult(connect_frame)
    /\ UNCHANGED <<connect_uuid, connect_name, connect_timeout,
                   connect_websocket, connect_waited, connect_frame>>

ConnectNext ==
    \/ \E u \in (1..MaxUuids) \cup {None} : \E n \in Names \cup {NoName} :
          \E t \in 0..MaxTimeout : ConnectCall(u, n, t) /\ UNCHANGED notConnectVars
    \/ ConnectOpened /\ UNCHANGED notConnectVars
    \/ \E e \in OpenExceptions : ConnectOpenFailed(e) /\ UNCHANGED notConnectVars
    \/ ConnectionCloses /\ UNCHANGED notConnectVars
    \/ ConnectSendDone /\ UNCHANGED notConnectVars
    \/ ConnectWait /\ UNCHANGED notConnectVars
    \/ ConnectRecvTimeout /\ UNCHANGED notConnectVars
    \/ ConnectRecvClosed /\ UNCHANGED notConnectVars
    \/ \E f \in ResponseFrames : ConnectRecvFrame(f) /\ UNCHANGED notConnectVars
    \/ ConnectResume /\ UNCHANGED notConnectVars

\* C13: connect either returns the identity carried by the server's
\* PeerRegistrationResponse together with the transport, or fails with
\* PeerRegistrationError; it fails with PeerRegistrationError when the
\* transport closed before a response was received, when no response arrived
\* within timeout, when the response is not a PeerRegistrationResponse and
\* when the response carries an error; there is no other outcome.
C13_ReturnsOrPeerRegistrationError ==
    connect_pc = "done" =>
        /\ \/ /\ connect_outcome.kind = "return"
              /\ connect_message.type = "PeerRegistrationResponse"
              /\ connect_message.error = NoError
              /\ connect_outcome.uuid = connect_message.uuid
           \/ connect_outcome = Raised("PeerRegistrationError")
        /\ (connect_frame = NoMessage /\ connect_websocket = "closed")
              => connect_outcome = Raised("PeerRegistrationError")
        /\ (connect_frame = NoMessage /\ connect_waited = connect_timeout)
              => connect_outcome = Raised("PeerRegistrationError")

(* ================== EndpointConnector.__init__ ======================== *)
NumEndpoints == 2

\* endpoint uuids
Endpoints == 1..NumEndpoints

\* the sequences without repetition over the set S, of up to NumEndpoints
\* elements
Lists(S) ==
    UNION {{l \in [1..n -> S] : \A i \in 1..n : \A j \in 1..n : l[i] = l[j] => i = j} :
              n \in 0..NumEndpoints}

Range(l) == {l[i] : i \in 1..Len(l)}

\* an element of the argument endpoints (line 71, Sequence[str | UUID]): a UUID
\* object, or a string that is the hexadecimal form of a uuid
UuidObject(u) == [type |-> "UUID", hex |-> u]
UuidString(u) == [type |-> "str", hex |-> u]

\* a string that is not the hexadecimal form of any uuid
Malformed == [type |-> "str", hex |-> None]

\* the argument lists
EndpointArguments ==
    Lists({UuidObject(u) : u \in Endpoints}
             \cup {UuidString(u) : u \in Endpoints} \cup {Malformed})

\* UUID(hex, version=4), line 77: the version and variant bits of the value
\* read from the string are overwritten with those of version 4. An odd uuid
\* has other bits there, and the even uuid after it is the same value with
\* the bits of version 4.
Version4(u) == IF u % 2 = 1 THEN u + 1 ELSE u

\* line 77: UUID(e, version=4) raises ValueError for a string that is not
\* hexadecimal
BadlyFormed(endpoints) == \E i \in 1..Len(endpoints) : endpoints[i] = Malformed

\* lines 76-78: self.endpoints
SelfEndpoints(endpoints) ==
    [i \in 1..Len(endpoints) |->
        IF endpoints[i].type = "UUID"
        THEN endpoints[i].hex
        ELSE Version4(endpoints[i].hex)]

\* what requests.get(http://host:port/endpoint) does: it raises
\* ConnectionError when nothing accepts the connection, or it returns a
\* response with a status code and, with 200, the uuid in its json
Refused == [status |-> 0, uuid |-> None]
Response(status_code, uuid) == [status |-> status_code, uuid |-> uuid]
Responses ==
    {Refused, Response(404, None)} \cup {Response(200, u) : u \in Endpoints}

\* nothing is constructed: the arguments and the environment are not chosen
EndpointInitIdle ==
    /\ init_endpoints = <<>>
    /\ available_endpoints = <<>>
    /\ served = <<>>
    /\ init_outcome = NoOutcome

\* the arguments and the environment of one construction
EndpointInitInputs ==
    /\ init_endpoints \in EndpointArguments
    /\ available_endpoints \in Lists(Endpoints)
    /\ served \in [Endpoints -> Responses]
    /\ init_outcome = NoOutcome

\* lines 110-117: the home endpoint is set
Found(endpoint) == [kind |-> "return", endpoint_uuid |-> endpoint]

\* line 88: the configuration's uuid is in self.endpoints
ScanTries(endpoints, configs, i) == configs[i] \in Range(endpoints)

\* lines 87-114: the scan of the configurations from position i on
RECURSIVE Scan(_, _, _, _)
Scan(endpoints, configs, responses, i) ==
    IF i > Len(configs)
    THEN Raised("EndpointConnectorError")
    ELSE IF ScanTries(endpoints, configs, i)
         THEN LET response == responses[configs[i]] IN
              IF response = Refused
              THEN Raised("ConnectionError")
              ELSE IF response.status = 200 /\ response.uuid = configs[i]
                   THEN Found(configs[i])
                   ELSE Scan(endpoints, configs, responses, i + 1)
         ELSE Scan(endpoints, configs, responses, i + 1)

\* lines 74-119
EndpointConnectorInit(endpoints, configs, responses) ==
    IF Len(endpoints) = 0 \/ BadlyFormed(endpoints)
    THEN Raised("ValueError")
    ELSE Scan(SelfEndpoints(endpoints), configs, responses, 1)

\* EndpointConnector(endpoints) is called
Construct ==
    /\ init_outcome = NoOutcome
    /\ init_outcome' =
          EndpointConnectorInit(init_endpoints, available_endpoints, served)
    /\ UNCHANGED <<init_endpoints, available_endpoints, served>>

EndpointInitNext == Construct /\ UNCHANGED notInitVars

\* the uuids the given list names, as objects or as strings
Given == {e.hex : e \in Range(init_endpoints)} \ {None}

\* the positions of the configurations that qualify: the uuid is in the given
\* list and GET /endpoint answers 200 with that uuid
Qualifying ==
    {i \in 1..Len(available_endpoints) :
        /\ available_endpoints[i] \in Given
        /\ served[available_endpoints[i]] = Response(200, available_endpoints[i])}

\* C17: with an empty endpoint list construction raises ValueError; otherwise
\* it succeeds only if some configuration qualifies, the home endpoint is
\* then the first qualifying configuration in scan order and a member of the
\* given list, and if none qualifies it raises EndpointConnectorError.
C17_HomeIsFirstQualifying ==
    init_outcome # NoOutcome =>
        /\ Len(init_endpoints) = 0 => init_outcome = Raised("ValueError")
        /\ (Len(init_endpoints) > 0 /\ init_outcome.kind = "return") =>
              /\ Qualifying # {}
              /\ \E i \in Qualifying :
                    /\ \A j \in Qualifying : i <= j
                    /\ init_outcome.endpoint_uuid = available_endpoints[i]
              /\ init_outcome.endpoint_uuid \in Given
        /\ (Len(init_endpoints) > 0 /\ Qualifying = {}) =>
              init_outcome = Raised("EndpointConnectorError")

(* ============ EndpointConnector.put/get/exists/evict ================== *)
MaxObjects == 2

\* serialized objects
Bytes == {"a", "b"}

\* get returns None
NotFound == "None"

EndpointKey(object_id, endpoint_id) ==
    [object_id |-> object_id, endpoint_id |-> endpoint_id]

\* the keys a caller can pass: of objects that were put, of one that was
\* not, for every endpoint and for no endpoint
Keys ==
    {EndpointKey(o, e) :
        o \in 1..(IF object_ids < MaxObjects THEN object_ids + 1 ELSE object_ids),
        e \in Endpoints \cup {None}}

\* how a request to the home endpoint can fail: requests raises
\* ConnectionError, which has no response, or HTTPError, which has one
NoFailure == "none"
RequestFailures == {"ConnectionError", "HTTPError"}

\* e.response of the RequestException
HasResponse(failure) == failure = "HTTPError"

\* lines 170-173, 186-189, 202-205, 234-237: the except clause formats
\* e.response.status_code into the EndpointConnectorError it raises
ExceptClause(failure) ==
    IF HasResponse(failure)
    THEN Raised("EndpointConnectorError")
    ELSE Raised("AttributeError")

\* the endpoint that serves a request made to endpoint home: the local
\* store when endpoint_id is absent or is home, else the peer endpoint_id
Target(home, endpoint_id) ==
    IF endpoint_id = None \/ endpoint_id = home THEN home ELSE endpoint_id

\* client.get, client.exists, client.evict and client.put on the endpoint
ClientGet(home, object_id, endpoint_id) ==
    LET store == objects[Target(home, endpoint_id)] IN
    IF object_id \in DOMAIN store THEN store[object_id] ELSE NotFound

ClientExists(home, object_id, endpoint_id) ==
    object_id \in DOMAIN objects[Target(home, endpoint_id)]

ClientEvict(home, object_id, endpoint_id) ==
    [objects EXCEPT ![Target(home, endpoint_id)] = DictPop(@, object_id)]

ClientPut(home, object_id, obj, endpoint_id) ==
    [objects EXCEPT ![Target(home, endpoint_id)] = DictSet(@, object_id, obj)]

EndpointOp(name, result) == [name |-> name, result |-> result]

Value(v) == [kind |-> "return", value |-> v]

NoOp == EndpointOp("none", NoOutcome)

\* no connector is constructed
EndpointIdle ==
    /\ endpoint_uuid = None
    /\ objects = [e \in Endpoints |-> <<>>]
    /\ object_ids = 0
    /\ endpoint_op = NoOp

\* lines 115-119: a constructed connector, whose home is one of the endpoints
EndpointInit ==
    /\ endpoint_uuid \in Endpoints
    /\ objects = [e \in Endpoints |-> <<>>]
    /\ object_ids = 0
    /\ endpoint_op = NoOp

\* mutant: the request names the endpoint where the key names the object
EvictArgsSwapped(key) == <<key.endpoint_id, key.object_id>>

\* line 169: the arguments evict passes to client.evict
EvictArgs(key) == <<key.object_id, key.endpoint_id>>

\* the stores after evict's request is served
EvictEffect(key) ==
    LET args == EvictArgs(key) IN ClientEvict(endpoint_uuid, args[1], args[2])

\* lines 162-173: evict(key)
Evict(key, failure) ==
    /\ IF failure = NoFailure
       THEN /\ objects' = EvictEffect(key)
            /\ endpoint_op' = EndpointOp("evict", Value(NotFound))
       ELSE /\ endpoint_op' = EndpointOp("evict", ExceptClause(failure))
            /\ UNCHANGED objects
    /\ UNCHANGED <<endpoint_uuid, object_ids>>

\* line 185: the arguments exists passes to client.exists
ExistsArgs(key) == <<key.object_id, key.endpoint_id>>

\* what exists returns when its request is served
ExistsReturns(key) ==
    LET args == ExistsArgs(key) IN ClientExists(endpoint_uuid, args[1], args[2])

\* lines 175-189: exists(key)
Exists(key, failure) ==
    /\ endpoint_op' = EndpointOp("exists",
                          IF failure = NoFailure
                          THEN Value(ExistsReturns(key))
                          ELSE ExceptClause(failure))
    /\ UNCHANGED <<endpoint_uuid, objects, object_ids>>

\* line 201: the arguments get passes to client.get
GetArgs(key) == <<key.object_id, key.endpoint_id>>

\* what get returns when its request is served
GetReturns(key) ==
    LET args == GetArgs(key) IN ClientGet(endpoint_uuid, args[1], args[2])

\* lines 191-205: get(key)
Get(key, failure) ==
    /\ endpoint_op' = EndpointOp("get",
                          IF failure = NoFailure
                          THEN Value(GetReturns(key))
                          ELSE ExceptClause(failure))
    /\ UNCHANGED <<endpoint_uuid, objects, object_ids>>

\* mutant: the object id is the one of the previous put
PutKeyNotFresh(home) == EndpointKey(IF object_ids = 0 THEN 1 ELSE object_ids, home)

\* lines 228-231: the key put makes, with a new object id
PutKey(home) == EndpointKey(object_ids + 1, home)

\* lines 219-239: put(obj)
Put(obj, failure) ==
    LET key == PutKey(endpoint_uuid) IN
    /\ object_ids < MaxObjects
    /\ object_ids' = object_ids + 1
    /\ IF failure = NoFailure
       THEN /\ objects' = ClientPut(endpoint_uuid, key.object_id, obj, key.endpoint_id)
            /\ endpoint_op' = EndpointOp("put", Value(key))
       ELSE /\ endpoint_op' = EndpointOp("put", ExceptClause(failure))
            /\ UNCHANGED objects
    /\ UNCHANGED endpoint_uuid

\* lines 228-233: the connector of another process, whose home is the peer
\* endpoint, puts obj
PeerPut(peer, obj) ==
    LET key == PutKey(peer) IN
    /\ peer # endpoint_uuid
    /\ object_ids < MaxObjects
    /\ object_ids' = object_ids + 1
    /\ objects' = ClientPut(peer, key.object_id, obj, key.endpoint_id)
    /\ UNCHANGED <<endpoint_uuid, endpoint_op>>

Failures == RequestFailures \cup {NoFailure}

\* a request that fails ends the same way for every key: one key stands
\* for all of them
FailuresFor(key) ==
    IF key = EndpointKey(1, None) THEN Failures ELSE {NoFailure}

EndpointNext ==
    \/ \E b \in Bytes : \E f \in Failures : Put(b, f) /\ UNCHANGED notEndpointVars
    \/ \E k \in Keys : \E f \in FailuresFor(k) : Get(k, f) /\ UNCHANGED notEndpointVars
    \/ \E k \in Keys : \E f \in FailuresFor(k) : Exists(k, f) /\ UNCHANGED notEndpointVars
    \/ \E k \in Keys : \E f \in FailuresFor(k) : Evict(k, f) /\ UNCHANGED notEndpointVars
    \/ \E e \in Endpoints : \E b \in Bytes : PeerPut(e, b) /\ UNCHANGED notEndpointVars

\* the keys of the objects that were given an id
Minted == {k \in Keys : k.object_id <= object_ids}

\* key and other name the same object of the same endpoint
SameObject(key, other) ==
    /\ key.object_id = other.object_id
    /\ Target(endpoint_uuid, key.endpoint_id) = Target(endpoint_uuid, other.endpoint_id)

\* the step is evict(key), served
EvictServed(key) ==
    /\ endpoint_op'.name = "evict"
    /\ endpoint_op' # endpoint_op \/ objects' # objects
    /\ Evict(key, NoFailure)

\* the step is a served evict of the object that key names
EvictOf(key) ==
    /\ endpoint_op'.name = "evict"
    /\ object_ids' = object_ids
    /\ \E other \in Keys : SameObject(key, other) /\ EvictServed(other)

\* the step is put(obj), and it returned a key
PutReturned(obj) == endpoint_op'.name = "put" /\ Put(obj, NoFailure)

\* C14: after put(b) returns key k, exists(k) is true and get(k) returns b,
\* whatever operations on other keys follow, until an evict of k is served;
\* from then on exists(k) is false and get(k) returns None. In steps: a put
\* makes its key return b and changes no other key; a served evict makes the
\* keys of its object absent; no other step that changes a store changes
\* what get or exists return for a key; get and exists return just that.
C14_RoundTripUntilEvict ==
    /\ [][\A b \in Bytes : (object_ids' # object_ids /\ PutReturned(b)) =>
            \A k \in Keys' :
               IF k = endpoint_op'.result.value
               THEN GetReturns(k)' = b /\ ExistsReturns(k)'
               ELSE k \in Minted => GetReturns(k)' = GetReturns(k)]_endpointVars
    /\ [][(endpoint_op'.name = "evict" /\ object_ids' = object_ids) =>
            \A other \in Keys : EvictServed(other) =>
               \A k \in Minted : SameObject(k, other) =>
                  ~ExistsReturns(k)' /\ GetReturns(k)' = NotFound]_endpointVars
    /\ [][objects' # objects =>
            \A k \in Minted : ~EvictOf(k) =>
               /\ GetReturns(k)' = GetReturns(k)
               /\ ExistsReturns(k)' = ExistsReturns(k)]_endpointVars
    /\ [][(endpoint_op' # endpoint_op /\ endpoint_op'.name = "get") =>
            \A k \in Keys :
               Get(k, NoFailure) => endpoint_op'.result = Value(GetReturns(k))]_endpointVars
    /\ [][(endpoint_op' # endpoint_op /\ endpoint_op'.name = "exists") =>
            \A k \in Keys :
               Exists(k, NoFailure) => endpoint_op'.result = Value(ExistsReturns(k))]_endpointVars

\* get returned the object of the first put after a second object was put
\* and evicted
C14_Witness ==
    /\ endpoint_op = EndpointOp("get", Value("a"))
    /\ object_ids = 2
    /\ objects[endpoint_uuid] = DictSet(<<>>, 1, "a")
    /\ \A e \in Endpoints : 2 \notin DOMAIN objects[e]

\* C15: an evict of a key that names no stored object returns without an
\* error and leaves every store as it was; after any served evict the key
\* names no object, so a second evict of it is such an evict.
C15_EvictMissingKeyIsNoOp ==
    [][endpoint_op'.name = "evict" =>
         \A k \in Keys :
            EvictServed(k) =>
               /\ endpoint_op'.result.kind = "return"
               /\ ~ExistsReturns(k)'
               /\ ~ExistsReturns(k) => objects' = objects]_endpointVars

\* an evict returned and the only object that was put is still stored: the
\* key that was evicted named no object
C15_Witness ==
    /\ endpoint_op = EndpointOp("evict", Value(NotFound))
    /\ object_ids = 1
    /\ 1 \in DOMAIN objects[endpoint_uuid]

\* the step is a put
PutStep == endpoint_op'.name = "put" /\ \E b \in Bytes : \E f \in Failures : Put(b, f)

\* C16: every key put returns has the home endpoint as its endpoint_id and
\* an object_id no earlier key had; a put whose request fails raises
\* EndpointConnectorError.
C16_PutKeyOrEndpointConnectorError ==
    [][PutStep =>
         IF endpoint_op'.result.kind = "return"
         THEN /\ endpoint_op'.result.value.endpoint_id = endpoint_uuid
              /\ endpoint_op'.result.value.object_id \notin 1..object_ids
         ELSE endpoint_op'.result = Raised("EndpointConnectorError")]_endpointVars

(* ==================== RemoteStore.get/is_cached/set ==================== *)
MaxSets == 2
MaxTime == 2

\* the readings of time.time()
Times == 1 .. MaxTime

\* the processes, each with its own RemoteStore object on the same store;
\* the name of a process is also the name of its main thread
Procs == {"a", "b"}

\* the process of the factory
FactoryProc == "a"

\* the calls of resolve and resolve_async of one factory, and the gets that
\* its calls of resolve_async submit to the pool
MaxCalls == 4
MaxSubmits == 3

\* _default_pool = ThreadPoolExecutor() (line 16), in the process of the
\* factory: its workers, of which there are min(32, cpu_count + 4), so at
\* least these five
PoolNames == <<"pool1", "pool2", "pool3", "pool4", "pool5">>

\* the workers that run a get: each get submitted has one, and no submit
\* waits for a worker
PoolThreads == {PoolNames[i] : i \in 1..MaxSubmits}

Threads == Procs \cup PoolThreads

\* the process a thread runs in: its threads share self._cache
ProcessOf(t) == IF t \in Procs THEN t ELSE FactoryProc

\* the key of the object
Key == "k"

\* get_bytes returns None
NoObject == 0

\* the argument default of get
Default == -1

\* self._cache is None (cache_size = 0)
NoCache == [enabled |-> FALSE]

\* self._cache without the key, and with (timestamp, value) for the key
EmptyCache == [enabled |-> TRUE, cached |-> FALSE]
Cached(timestamp, value) ==
    [enabled |-> TRUE, cached |-> TRUE, timestamp |-> timestamp, value |-> value]

\* the locals of a call: op is the method called (get, is_cached or set),
\* floor the object written by the last set that completed before the call
NoLocals ==
    [op |-> "none", strict |-> FALSE, floor |-> 0, value |-> NoObject,
     timestamp |-> 0]

RemoteResult(p, op, locals, outcome) ==
    [proc |-> p, op |-> op, strict |-> locals.strict, floor |-> locals.floor,
     outcome |-> outcome]

\* no process has called anything
RemoteIdle ==
    /\ remote_value = NoObject
    /\ remote_timestamp = NoObject
    /\ sets = 0
    /\ last_set = 0
    /\ cache = [p \in Procs |-> NoCache]
    /\ remote_pc = [t \in Threads |-> "idle"]
    /\ remote_local = [t \in Threads |-> NoLocals]
    /\ remote_result = RemoteResult("none", "none", NoLocals, NoOutcome)

\* lines 141-157: the stores are constructed, with or without a cache
RemoteInit ==
    /\ remote_value = NoObject
    /\ remote_timestamp = NoObject
    /\ sets = 0
    /\ last_set = 0
    /\ cache \in [Procs -> {NoCache, EmptyCache}]
    /\ remote_pc = [t \in Threads |-> "idle"]
    /\ remote_local = [t \in Threads |-> NoLocals]
    /\ remote_result = RemoteResult("none", "none", NoLocals, NoOutcome)

\* the call of process p ends with outcome
RemoteReturn(p, op, locals, outcome) ==
    /\ remote_pc' = [remote_pc EXCEPT ![p] = "idle"]
    /\ remote_local' = [remote_local EXCEPT ![p] = NoLocals]
    /\ remote_result' = RemoteResult(p, op, locals, outcome)

\* lines 241-244 and 253: is_cached before it reads the remote store
InCache(c) == c.enabled /\ c.cached

\* lines 246-251: the strict check, given the timestamp of the remote store
IsFresh(c, store_timestamp) == c.timestamp >= store_timestamp

\* thread t goes on at the next access to the cache, the remote store or
\* the clock
RemoteGoto(t, at, locals) ==
    /\ remote_pc' = [remote_pc EXCEPT ![t] = at]
    /\ remote_local' = [remote_local EXCEPT ![t] = locals]
    /\ UNCHANGED remote_result

\* lines 203-211, 242 and 250-253: is_cached returns answer, to its caller,
\* or to get, which then reads the cache (line 204) or the remote store
\* (line 211)
IsCachedReturns(t, locals, answer) ==
    IF locals.op = "is_cached"
    THEN RemoteReturn(t, "is_cached", locals, Value(answer))
    ELSE RemoteGoto(t, IF answer THEN "cache_get" ELSE "get_bytes", locals)

\* lines 241-245, 251 and 253: is_cached looks for the key in the cache
CacheExists(t, locals) ==
    /\ IF ~InCache(cache[ProcessOf(t)])
       THEN IsCachedReturns(t, locals, FALSE)
       ELSE IF ~locals.strict
       THEN IsCachedReturns(t, locals, TRUE)
       ELSE RemoteGoto(t, "store_timestamp", locals)
    /\ UNCHANGED <<remote_value, remote_timestamp, sets, last_set, cache>>

\* line 203: get(key, strict=strict) starts in thread t with is_cached
GetStart(t, strict) ==
    CacheExists(t, [NoLocals EXCEPT !.op = "get", !.strict = strict,
                                    !.floor = last_set])

\* get(key, strict=strict) is called in the main thread of process p
GetCall(p, strict) ==
    /\ remote_pc[p] = "idle"
    /\ GetStart(p, strict)

\* is_cached(key, strict=strict) is called in the main thread of process p
IsCachedCall(p, strict) ==
    /\ remote_pc[p] = "idle"
    /\ CacheExists(p, [NoLocals EXCEPT !.op = "is_cached", !.strict = strict,
                                       !.floor = last_set])

\* lines 246-248: is_cached reads the timestamp of the remote store
StoreTimestamp(t) ==
    LET locals == remote_local[t] IN
    /\ remote_pc[t] = "store_timestamp"
    /\ IF remote_timestamp = NoObject
       THEN RemoteReturn(t, locals.op, locals, Raised("AttributeError"))
       ELSE RemoteGoto(t, "cache_timestamp",
                       [locals EXCEPT !.timestamp = remote_timestamp])
    /\ UNCHANGED <<remote_value, remote_timestamp, sets, last_set, cache>>

\* lines 249-250: is_cached reads the cached timestamp and compares; when
\* the key has left the cache, self._cache.get(key) is None
CacheTimestamp(t) ==
    LET locals == remote_local[t]
        c == cache[ProcessOf(t)]
    IN
    /\ remote_pc[t] = "cache_timestamp"
    /\ IF ~InCache(c)
       THEN RemoteReturn(t, locals.op, locals, Raised("TypeError"))
       ELSE IsCachedReturns(t, locals, IsFresh(c, locals.timestamp))
    /\ UNCHANGED <<remote_value, remote_timestamp, sets, last_set, cache>>

\* lines 204-209: get returns the cached object
CacheGet(t) ==
    LET locals == remote_local[t]
        c == cache[ProcessOf(t)]
    IN
    /\ remote_pc[t] = "cache_get"
    /\ IF ~InCache(c)
       THEN RemoteReturn(t, "get", locals, Raised("TypeError"))
       ELSE RemoteReturn(t, "get", locals, Value(c.value))
    /\ UNCHANGED <<remote_value, remote_timestamp, sets, last_set, cache>>

\* lines 211-212 and 223-228: value = self.get_bytes(key)
GetBytes(t) ==
    LET locals == remote_local[t] IN
    /\ remote_pc[t] = "get_bytes"
    /\ IF remote_value = NoObject
       THEN RemoteReturn(t, "get", locals, Value(Default))
       ELSE RemoteGoto(t, "get_timestamp", [locals EXCEPT !.value = remote_value])
    /\ UNCHANGED <<remote_value, remote_timestamp, sets, last_set, cache>>

\* lines 213-222: the timestamp is read; without a cache the object is
\* returned
GetTimestamp(t) ==
    LET locals == remote_local[t] IN
    /\ remote_pc[t] = "get_timestamp"
    /\ IF remote_timestamp = NoObject
       THEN RemoteReturn(t, "get", locals, Raised("AttributeError"))
       ELSE IF cache[ProcessOf(t)].enabled
       THEN RemoteGoto(t, "cache_set", [locals EXCEPT !.timestamp = remote_timestamp])
       ELSE RemoteReturn(t, "get", locals, Value(locals.value))
    /\ UNCHANGED <<remote_value, remote_timestamp, sets, last_set, cache>>

\* lines 216-222: the object is cached with the timestamp read, and returned
CacheSet(t) ==
    LET locals == remote_local[t] IN
    /\ remote_pc[t] = "cache_set"
    /\ cache' = [cache EXCEPT ![ProcessOf(t)] = Cached(locals.timestamp, locals.value)]
    /\ RemoteReturn(t, "get", locals, Value(locals.value))
    /\ UNCHANGED <<remote_value, remote_timestamp, sets, last_set>>

\* a step of get or is_cached in thread t after the first
GetStep(t) ==
    \/ StoreTimestamp(t)
    \/ CacheTimestamp(t)
    \/ CacheGet(t)
    \/ GetBytes(t)
    \/ GetTimestamp(t)
    \/ CacheSet(t)

\* lines 270-275: set(obj, key=key) writes the object
SetCall(p) ==
    /\ remote_pc[p] = "idle"
    /\ sets < MaxSets
    /\ sets' = sets + 1
    /\ remote_value' = sets + 1
    /\ RemoteGoto(p, "set_time", [NoLocals EXCEPT !.op = "set", !.value = sets + 1])
    /\ UNCHANGED <<remote_timestamp, last_set, cache>>

\* line 276: when the write has returned, set reads time.time() for the
\* argument of the second write; the wall clock of a process can read the
\* same as, more or less than any reading before it
SetTime(p) ==
    /\ remote_pc[p] = "set_time"
    /\ \E now \in Times :
          RemoteGoto(p, "set_timestamp", [remote_local[p] EXCEPT !.timestamp = now])
    /\ UNCHANGED <<remote_value, remote_timestamp, sets, last_set, cache>>

\* lines 276-281: set writes the clock reading as the timestamp and returns
\* the key
SetTimestamp(p) ==
    /\ remote_pc[p] = "set_timestamp"
    /\ remote_timestamp' = remote_local[p].timestamp
    /\ last_set' = remote_local[p].value
    /\ RemoteReturn(p, "set", remote_local[p], Value(Key))
    /\ UNCHANGED <<remote_value, sets, cache>>

RemoteNext ==
    \/ \E p \in Procs : \E strict \in BOOLEAN : GetCall(p, strict) /\ UNCHANGED notRemoteVars
    \/ \E p \in Procs : StoreTimestamp(p) /\ UNCHANGED notRemoteVars
    \/ \E p \in Procs : CacheTimestamp(p) /\ UNCHANGED notRemoteVars
    \/ \E p \in Procs : CacheGet(p) /\ UNCHANGED notRemoteVars
    \/ \E p \in Procs : GetBytes(p) /\ UNCHANGED notRemoteVars
    \/ \E p \in Procs : GetTimestamp(p) /\ UNCHANGED notRemoteVars
    \/ \E p \in Procs : CacheSet(p) /\ UNCHANGED notRemoteVars
    \/ \E p \in Procs : SetCall(p) /\ UNCHANGED notRemoteVars
    \/ \E p \in Procs : SetTime(p) /\ UNCHANGED notRemoteVars
    \/ \E p \in Procs : SetTimestamp(p) /\ UNCHANGED notRemoteVars

\* the object a get returned: the default stands for no object
Version(value) == IF value = Default THEN 0 ELSE value

\* C18: a strict get never returns an object older than the one written by
\* the latest set that completed before the get started.
C18_StrictGetIsMostRecent ==
    (remote_result.op = "get" /\ remote_result.strict
        /\ remote_result.outcome.kind = "return")
    => Version(remote_result.outcome.value) >= remote_result.floor

\* C19: whenever a get returns, it returns the object the remote store holds
\* for the key, or the default if it holds none, and never raises; a get of
\* a key the remote store does not hold leaves the cache as it was.
C19_GetReturnsObjectOrDefault ==
    [][\A p \in Procs :
         (remote_result' # remote_result /\ remote_result'.op = "get"
            /\ remote_result'.proc = p) =>
            /\ remote_result'.outcome =
                  Value(IF remote_value = NoObject THEN Default ELSE remote_value)
            /\ remote_value = NoObject => cache' = cache]_remoteVars

\* the process whose RemoteStore object is the only one that calls set
Writer == "a"

\* the calls when one RemoteStore object writes the key and every object
\* may read it
RemoteWriterNext ==
    \/ \E p \in Procs : \E strict \in BOOLEAN : GetCall(p, strict) /\ UNCHANGED notRemoteVars
    \/ \E p \in Procs : GetStep(p) /\ UNCHANGED notRemoteVars
    \/ SetCall(Writer) /\ UNCHANGED notRemoteVars
    \/ SetTime(Writer) /\ UNCHANGED notRemoteVars
    \/ SetTimestamp(Writer) /\ UNCHANGED notRemoteVars

\* this step is the return of a get of the writer, made after a set of it
\* returned
WriterGetReturns ==
    /\ remote_result' # remote_result
    /\ remote_result'.op = "get"
    /\ remote_result'.proc = Writer
    /\ last_set # 0

\* C34 as stated: on one RemoteStore object with a cache, the get that
\* follows a set of obj returns obj, strict or not, also when the cache
\* held an earlier object.
C34_GetAfterSetReturnsObject ==
    [][(WriterGetReturns /\ cache[Writer].enabled) =>
          remote_result'.outcome = Value(last_set)]_remoteVars

(* ============== RemoteFactory.resolve/resolve_async ==================== *)
\* the process that sets the key again
Peer == "b"

\* self._obj_future: None, or the future of the get that pool thread t runs,
\* or that future when the get has ended
NoFuture == [state |-> "none"]
Pending(t) == [state |-> "pending", thread |-> t]
Done(outcome) == [state |-> "done", outcome |-> outcome]

FactoryResult(op, outcome) == [op |-> op, outcome |-> outcome]

\* no factory is made
FactoryIdle ==
    /\ factory_evict = FALSE
    /\ factory_strict = FALSE
    /\ obj_future = NoFuture
    /\ submitted = NoFuture
    /\ submits = 0
    /\ factory_pc = "idle"
    /\ factory_obj = NoObject
    /\ factory_calls = 0
    /\ factory_result = FactoryResult("none", NoOutcome)

\* lines 32-67: a factory for the key, whose object a completed set wrote,
\* in a process whose store has no cache, an empty one or the object cached
FactoryInit ==
    /\ factory_evict \in BOOLEAN
    /\ factory_strict \in BOOLEAN
    /\ obj_future = NoFuture
    /\ submitted = NoFuture
    /\ submits = 0
    /\ factory_pc = "idle"
    /\ factory_obj = NoObject
    /\ factory_calls = 0
    /\ factory_result = FactoryResult("none", NoOutcome)
    /\ remote_value = 1
    /\ remote_timestamp = 1
    /\ sets = 1
    /\ last_set = 1
    /\ cache \in [Procs -> {NoCache, EmptyCache, Cached(1, 1)}]
    /\ cache[Peer] = NoCache
    /\ remote_pc = [t \in Threads |-> "idle"]
    /\ remote_local = [t \in Threads |-> NoLocals]
    /\ remote_result = RemoteResult("none", "none", NoLocals, NoOutcome)

\* store.evict(key): the object leaves the remote store and the cache
StoreEvict(c) == IF c.enabled THEN EmptyCache ELSE c

\* the call of resolve or resolve_async ends with outcome
FactoryReturn(op, outcome) ==
    /\ factory_pc' = "idle"
    /\ factory_obj' = NoObject
    /\ factory_calls' = factory_calls + 1
    /\ factory_result' = FactoryResult(op, outcome)

\* lines 91-96: resolve() when resolve_async() left a future, which has
\* finished: the result of the future is returned or raised
ResolveFuture ==
    /\ factory_pc = "idle"
    /\ factory_calls < MaxCalls
    /\ obj_future.state = "done"
    /\ FactoryReturn("resolve", obj_future.outcome)
    /\ obj_future' = IF obj_future.outcome.kind = "raise" THEN obj_future ELSE NoFuture
    /\ UNCHANGED <<factory_evict, factory_strict, submitted, submits, remoteVars>>

\* lines 100-105: resolve() after a step of store.get in its thread: the get
\* goes on, or it raised, or it returned obj, which resolve() returns unless
\* it has to evict the key first
ResolveAfterGet ==
    IF remote_pc'[FactoryProc] # "idle"
    THEN /\ factory_pc' = "get"
         /\ UNCHANGED <<factory_obj, factory_calls, factory_result>>
    ELSE IF remote_result'.outcome.kind = "return" /\ factory_evict
    THEN /\ factory_pc' = "evict"
         /\ factory_obj' = remote_result'.outcome.value
         /\ UNCHANGED <<factory_calls, factory_result>>
    ELSE FactoryReturn("resolve", remote_result'.outcome)

\* lines 91-93 and 98-102: resolve() without a future calls store.get
Resolve ==
    /\ factory_pc = "idle"
    /\ factory_calls < MaxCalls
    /\ obj_future = NoFuture
    /\ GetCall(FactoryProc, factory_strict)
    /\ ResolveAfterGet
    /\ UNCHANGED <<factory_evict, factory_strict, obj_future, submitted, submits>>

\* lines 100-102: the store.get of resolve() goes on
ResolveGet ==
    /\ factory_pc = "get"
    /\ GetStep(FactoryProc)
    /\ ResolveAfterGet
    /\ UNCHANGED <<factory_evict, factory_strict, obj_future, submitted, submits>>

\* lines 103-105: resolve() evicts the key and returns obj
ResolveEvict ==
    /\ factory_pc = "evict"
    /\ remote_value' = NoObject
    /\ cache' = [cache EXCEPT ![FactoryProc] = StoreEvict(@)]
    /\ FactoryReturn("resolve", Value(factory_obj))
    /\ UNCHANGED <<factory_evict, factory_strict, obj_future, submitted, submits,
                   remote_timestamp, sets, last_set, remote_pc, remote_local,
                   remote_result>>

\* lines 114-117: resolve_async() after a step of store.is_cached in its
\* thread: is_cached goes on, or it raised, or it found the object cached
\* and resolve_async() returns, or the get is to be submitted
ResolveAsyncAfterIsCached ==
    IF remote_pc'[FactoryProc] # "idle"
    THEN /\ factory_pc' = "is_cached"
         /\ UNCHANGED <<factory_obj, factory_calls, factory_result>>
    ELSE IF remote_result'.outcome.kind = "raise"
    THEN FactoryReturn("resolve_async", remote_result'.outcome)
    ELSE IF remote_result'.outcome.value
    THEN FactoryReturn("resolve_async", Value(Default))
    ELSE /\ factory_pc' = "submit"
         /\ UNCHANGED <<factory_obj, factory_calls, factory_result>>

\* lines 107-114: resolve_async() calls store.is_cached
ResolveAsync ==
    /\ factory_pc = "idle"
    /\ factory_calls < MaxCalls
    /\ submits < MaxSubmits
    /\ IsCachedCall(FactoryProc, factory_strict)
    /\ ResolveAsyncAfterIsCached
    /\ UNCHANGED <<factory_evict, factory_strict, obj_future, submitted, submits>>

\* line 114: the store.is_cached of resolve_async() goes on
ResolveAsyncIsCached ==
    /\ factory_pc = "is_cached"
    /\ StoreTimestamp(FactoryProc) \/ CacheTimestamp(FactoryProc)
    /\ ResolveAsyncAfterIsCached
    /\ UNCHANGED <<factory_evict, factory_strict, obj_future, submitted, submits>>

\* the future as the get of pool thread t leaves it: done when the get has
\* ended, as it was otherwise
FutureAfter(future, t) ==
    IF remote_pc'[t] = "idle" /\ future = Pending(t)
    THEN Done(remote_result'.outcome)
    ELSE future

\* lines 117-122: _default_pool.submit(store.get, ...) hands the get to a
\* worker and returns its future; the worker runs from here on, while
\* resolve_async() has not assigned the future
Submit ==
    LET t == CHOOSE t \in PoolThreads : remote_pc[t] = "idle" IN
    /\ factory_pc = "submit"
    /\ submitted = NoFuture
    /\ remote_pc' = [remote_pc EXCEPT ![t] = "submitted"]
    /\ submitted' = Pending(t)
    /\ submits' = submits + 1
    /\ UNCHANGED <<factory_evict, factory_strict, obj_future, factory_pc,
                   factory_obj, factory_calls, factory_result, remote_value,
                   remote_timestamp, sets, last_set, cache, remote_local,
                   remote_result>>

\* line 117: the future that submit returned, pending or done, replaces the
\* one the factory held; resolve_async() returns
AssignFuture ==
    /\ factory_pc = "submit"
    /\ submitted # NoFuture
    /\ obj_future' = submitted
    /\ submitted' = NoFuture
    /\ FactoryReturn("resolve_async", Value(Default))
    /\ UNCHANGED <<factory_evict, factory_strict, submits, remoteVars>>

\* lines 117-122: pool thread t runs a step of the store.get submitted to
\* it; when the get ends, its future is done, whether resolve_async() has
\* assigned it or not and whether the factory still holds it or not
PoolGet(t) ==
    /\ \/ remote_pc[t] = "submitted" /\ GetStart(t, factory_strict)
       \/ GetStep(t)
    /\ obj_future' = FutureAfter(obj_future, t)
    /\ submitted' = FutureAfter(submitted, t)
    /\ UNCHANGED <<factory_evict, factory_strict, submits, factory_pc,
                   factory_obj, factory_calls, factory_result>>

\* lines 270-281: the peer sets the key again
PeerSet ==
    /\ SetCall(Peer) \/ SetTime(Peer) \/ SetTimestamp(Peer)
    /\ UNCHANGED factoryVars

FactoryNext ==
    \/ ResolveFuture /\ UNCHANGED notFactoryVars
    \/ Resolve /\ UNCHANGED notFactoryVars
    \/ ResolveGet /\ UNCHANGED notFactoryVars
    \/ ResolveEvict /\ UNCHANGED notFactoryVars
    \/ ResolveAsync /\ UNCHANGED notFactoryVars
    \/ ResolveAsyncIsCached /\ UNCHANGED notFactoryVars
    \/ Submit /\ UNCHANGED notFactoryVars
    \/ AssignFuture /\ UNCHANGED notFactoryVars
    \/ \E t \in PoolThreads : PoolGet(t) /\ UNCHANGED notFactoryVars
    \/ PeerSet /\ UNCHANGED notFactoryVars

\* C20: when a resolve() of a factory made with evict=True returns, the key
\* is no longer in the store, whether resolve_async() was called before or
\* not; a resolve() of a factory made with evict=False changes nothing in
\* the store.
C20_ResolveEvictsIffEvict ==
    [][(factory_calls' # factory_calls /\ factory_result'.op = "resolve"
          /\ factory_result'.outcome.kind = "return") =>
         IF factory_evict
         THEN remote_value' = NoObject
         ELSE remote_value' = remote_value]_<<remoteVars, factoryVars>>

(* ============ init_local_backend / init_redis_backend ================= *)
MaxInits == 4

Hostnames == {"h1", "h2", "h3"}
Ports == {6379, 6380}

\* ps.store is None
NoStore == [type |-> "none"]

\* store.LocalStore() and store.RedisStore(hostname, port): a new instance
LocalStore(instance) == [type |-> "LocalStore", instance |-> instance]
RedisStore(instance, hostname, port) ==
    [type |-> "RedisStore", instance |-> instance, hostname |-> hostname, port |-> port]

NoArgs == <<>>

BackendResult(op, args, outcome) == [op |-> op, args |-> args, outcome |-> outcome]

BackendInit ==
    /\ ps_store = NoStore
    /\ backend_calls = 0
    /\ backend_result = BackendResult("none", NoArgs, NoOutcome)

\* mutant: no store counts as initialized
NeverInitialized(store) == FALSE

\* lines 17 and 52: ps.store is not None
IsInitialized(store) == store # NoStore

\* mutant: an instance of the type that was made with the same arguments
IsSameInstance(store, new) == store = [new EXCEPT !.instance = store.instance]

\* lines 18 and 53: isinstance(ps.store, type of new)
IsInstance(store, new) == store.type = new.type

\* lines 17-31 and 52-66: the body of both functions, new being the
\* instance the function would make
InitBackend(op, args, new) ==
    /\ backend_calls < MaxInits
    /\ backend_calls' = backend_calls + 1
    /\ IF IsInitialized(ps_store)
       THEN /\ backend_result' =
                 BackendResult(op, args, IF IsInstance(ps_store, new)
                                         THEN Value(NotFound)
                                         ELSE Raised("ValueError"))
            /\ UNCHANGED ps_store
       ELSE /\ ps_store' = new
            /\ backend_result' = BackendResult(op, args, Value(NotFound))

\* lines 6-31: init_local_backend()
InitLocalBackend ==
    InitBackend("init_local_backend", NoArgs, LocalStore(backend_calls + 1))

\* lines 34-66: init_redis_backend(hostname, port)
InitRedisBackend(hostname, port) ==
    InitBackend("init_redis_backend", <<hostname, port>>,
                RedisStore(backend_calls + 1, hostname, port))

BackendNext ==
    \/ InitLocalBackend /\ UNCHANGED notBackendVars
    \/ \E h \in Hostnames : \E p \in Ports :
          InitRedisBackend(h, p) /\ UNCHANGED notBackendVars

\* the type of store the call op asks for
Requested(op) == IF op = "init_local_backend" THEN "LocalStore" ELSE "RedisStore"

\* C21: an init call made while the store is already a backend of the
\* requested type returns and leaves the store as it is, whatever host and
\* port it passes; so the store is always the instance the first call made.
C21_InitIsIdempotent ==
    /\ [][(backend_calls' # backend_calls /\ ps_store # NoStore
            /\ ps_store.type = Requested(backend_result'.op)) =>
            /\ backend_result'.outcome.kind = "return"
            /\ ps_store' = ps_store]_backendVars
    /\ [](ps_store # NoStore => ps_store.instance = 1)

\* a Redis backend was asked for a third time, with another host and port
\* than the store has, and the call returned
C21_Witness ==
    /\ backend_calls = 3
    /\ backend_result =
           BackendResult("init_redis_backend", <<"h2", 6380>>, Value(NotFound))
    /\ ps_store = RedisStore(1, "h1", 6379)

\* C22: an init call made while the store is a backend of another type
\* raises ValueError and leaves the store as it is; once set, the store
\* never changes.
C22_OtherTypeRaisesValueError ==
    /\ [][(backend_calls' # backend_calls /\ ps_store # NoStore
            /\ ps_store.type # Requested(backend_result'.op)) =>
            /\ backend_result'.outcome = Raised("ValueError")
            /\ ps_store' = ps_store]_backendVars
    /\ [][ps_store # NoStore => ps_store' = ps_store]_backendVars

\* a Redis backend was asked for while the store is a local backend
C22_Witness ==
    /\ backend_result.op = "init_redis_backend"
    /\ backend_result.outcome = Raised("ValueError")
    /\ ps_store = LocalStore(1)

(* ================== endpoint commands (get_status, ...) ================ *)
MaxCommands == 2

EndpointNames == {"default", "ep1"}
InvalidName == "abc?"

\* socket.gethostname(), a host field never written, another host
LocalHost == "localhost"
NoHost == "None"

\* the configuration file of a directory: absent, not parseable, or a record
MissingConfig == [kind |-> "missing"]
BadConfig == [kind |-> "unparseable"]
EndpointConfig(name, uuid, host, port, server) ==
    [kind |-> "config", name |-> name, uuid |-> uuid, host |-> host,
     port |-> port, server |-> server]

\* no PID file
NoPid == 0

NoDir == [exists |-> FALSE, config |-> MissingConfig, pid_file |-> NoPid]
Dir(config, pid_file) == [exists |-> TRUE, config |-> config, pid_file |-> pid_file]

\* the uuid of a configuration and the pid of a PID file written before
\* the first command
Earlier(name) == IF name = "default" THEN 1 ELSE 2

\* a uuid (uuid4) or a pid (of the server process) that no directory holds
Mint == 3 + command_calls

\* the directories a command can find under proxystore_dir/name
DirStates(name) ==
    {NoDir} \cup
    {Dir(c, p) :
        c \in {MissingConfig, BadConfig} \cup
              {EndpointConfig(name, Earlier(name), h, 1234, "None") : h \in {NoHost, LocalHost, "abcd"}},
        p \in {NoPid, Earlier(name)}}

CommandResult(op, name, args, rv) == [op |-> op, name |-> name, args |-> args, rv |-> rv]

CommandsIdle ==
    /\ endpoint_dirs = [n \in EndpointNames \cup {InvalidName} |-> NoDir]
    /\ live_pids = {}
    /\ command_calls = 0
    /\ command_result = CommandResult("none", "none", NoArgs, 0)

CommandsInit ==
    /\ endpoint_dirs \in [EndpointNames \cup {InvalidName} -> DirStates("default")
                                                       \cup DirStates("ep1")]
    /\ \A n \in EndpointNames : endpoint_dirs[n] \in DirStates(n)
    /\ endpoint_dirs[InvalidName] = NoDir
    /\ live_pids \in SUBSET {endpoint_dirs[n].pid_file : n \in EndpointNames}
    /\ NoPid \notin live_pids
    /\ command_calls = 0
    /\ command_result = CommandResult("none", "none", NoArgs, 0)

\* mutant: a live process and a dead one taken for each other
GetStatusSwapped(dir, live) ==
    IF ~dir.exists \/ dir.config.kind # "config" THEN "UNKNOWN"
    ELSE IF dir.pid_file = NoPid THEN "STOPPED"
    ELSE IF dir.pid_file \in live THEN "HANGING"
    ELSE "RUNNING"

\* get_status(name): the status of the directory dir
GetStatus(dir, live) ==
    IF ~dir.exists THEN "UNKNOWN"
    ELSE IF dir.config.kind # "config" THEN "UNKNOWN"
    ELSE IF dir.pid_file = NoPid THEN "STOPPED"
    ELSE IF dir.pid_file \in live THEN "RUNNING"
    ELSE "HANGING"

\* mutant: no stored host counts as another host
NeverForeign(config) == FALSE

\* the stored host names another host than the local one
IsForeignHost(config) == config.host # NoHost /\ config.host # LocalHost

\* mutant: the PID file stays
KeepPidFile(dir) == dir

\* os.remove(pid_file)
RemovePidFile(dir) == [dir EXCEPT !.pid_file = NoPid]

\* mutant: only a running endpoint must be stopped first
OnlyRunning(status) == status = "RUNNING"

\* remove_endpoint refuses an endpoint of this status
MustBeStopped(status) == status \in {"RUNNING", "HANGING"}

\* mutant: every name is taken
AnyName(name) == TRUE

\* configure_endpoint takes alphanumeric names only
IsValidName(name) == name # InvalidName

\* mutant: an endpoint that is running is started again
NeverRunning(status) == FALSE

\* start_endpoint refuses an endpoint of this status
AlreadyRunning(status) == status = "RUNNING"

\* a command on proxystore_dir/name that returns rv and leaves the
\* directory as dir and the processes as live
Command(op, name, args, rv, dir, live) ==
    /\ command_calls < MaxCommands
    /\ command_calls' = command_calls + 1
    /\ endpoint_dirs' = [endpoint_dirs EXCEPT ![name] = dir]
    /\ live_pids' = live
    /\ command_result' = CommandResult(op, name, args, rv)

GetStatusCall(name) ==
    LET dir == endpoint_dirs[name]
    IN  Command("get_status", name, NoArgs, GetStatus(dir, live_pids), dir, live_pids)

\* configure_endpoint(name, port, server)
ConfigureEndpoint(name, port, server) ==
    LET dir == endpoint_dirs[name]
    IN  IF ~IsValidName(name) \/ dir.exists
        THEN Command("configure_endpoint", name, <<port, server>>, 1, dir, live_pids)
        ELSE Command("configure_endpoint", name, <<port, server>>, 0,
                     Dir(EndpointConfig(name, Mint, NoHost, port, server), NoPid),
                     live_pids)

\* remove_endpoint(name)
RemoveEndpoint(name) ==
    LET dir == endpoint_dirs[name]
    IN  IF ~dir.exists \/ MustBeStopped(GetStatus(dir, live_pids))
        THEN Command("remove_endpoint", name, NoArgs, 1, dir, live_pids)
        ELSE Command("remove_endpoint", name, NoArgs, 0, NoDir, live_pids)

\* start_endpoint(name, detach): the server process is Mint
StartEndpoint(name, detach) ==
    LET dir == endpoint_dirs[name]
        status == GetStatus(dir, live_pids)
    IN  IF \/ AlreadyRunning(status)
           \/ ~dir.exists
           \/ dir.config.kind # "config"
           \/ status = "HANGING" /\ IsForeignHost(dir.config)
        THEN Command("start_endpoint", name, <<detach>>, 1, dir, live_pids)
        ELSE Command("start_endpoint", name, <<detach>>, 0,
                     Dir([dir.config EXCEPT !.host = LocalHost], Mint),
                     live_pids \cup {Mint})

\* stop_endpoint(name)
StopEndpoint(name) ==
    LET dir == endpoint_dirs[name]
        status == GetStatus(dir, live_pids)
    IN  CASE status = "UNKNOWN" ->
                Command("stop_endpoint", name, NoArgs, 1, dir, live_pids)
          [] status = "STOPPED" ->
                Command("stop_endpoint", name, NoArgs, 0, dir, live_pids)
          [] status = "HANGING" ->
                IF IsForeignHost(dir.config)
                THEN Command("stop_endpoint", name, NoArgs, 1, dir, live_pids)
                ELSE Command("stop_endpoint", name, NoArgs, 0,
                             RemovePidFile(dir), live_pids)
          [] status = "RUNNING" ->
                Command("stop_endpoint", name, NoArgs, 0,
                        RemovePidFile(dir), live_pids \ {dir.pid_file})

\* the server process of an endpoint dies and leaves its PID file
ProcessExits(pid) ==
    /\ pid \in live_pids
    /\ live_pids' = live_pids \ {pid}
    /\ UNCHANGED <<endpoint_dirs, command_calls, command_result>>

CommandsNext ==
    \/ \E n \in EndpointNames : GetStatusCall(n) /\ UNCHANGED notCommandVars
    \/ \E n \in EndpointNames \cup {InvalidName} :
          \E p \in {1234, 5678} : \E s \in {"None", "server"} :
             ConfigureEndpoint(n, p, s) /\ UNCHANGED notCommandVars
    \/ \E n \in EndpointNames : RemoveEndpoint(n) /\ UNCHANGED notCommandVars
    \/ \E n \in EndpointNames : \E detach \in BOOLEAN :
          StartEndpoint(n, detach) /\ UNCHANGED notCommandVars
    \/ \E n \in EndpointNames : StopEndpoint(n) /\ UNCHANGED notCommandVars
    \/ \E pid \in live_pids : ProcessExits(pid) /\ UNCHANGED notCommandVars

\* this step is a call of the command op
Called(op) == command_calls' # command_calls /\ command_result'.op = op

\* the directory the last command was about, before and after it
DirBefore == endpoint_dirs[command_result'.name]
DirAfter == endpoint_dirs'[command_result'.name]

Readable(dir) == dir.exists /\ dir.config.kind = "config"

\* get_configs(proxystore_dir): the configured endpoints
Configured(dirs) == {n \in DOMAIN dirs : Readable(dirs[n])}

\* C23: get_status returns UNKNOWN for no directory or no readable
\* configuration, else STOPPED for no PID file, else RUNNING for a live
\* process and HANGING for a dead one; it changes nothing.
C23_GetStatusIsFunctionOfDirectory ==
    [][Called("get_status") =>
        LET rv == command_result'.rv
            pid == DirBefore.pid_file
        IN  /\ rv \in {"UNKNOWN", "STOPPED", "RUNNING", "HANGING"}
            /\ ~Readable(DirBefore) => rv = "UNKNOWN"
            /\ Readable(DirBefore) /\ pid = NoPid => rv = "STOPPED"
            /\ Readable(DirBefore) /\ pid # NoPid /\ pid \in live_pids => rv = "RUNNING"
            /\ Readable(DirBefore) /\ pid # NoPid /\ pid \notin live_pids => rv = "HANGING"
            /\ UNCHANGED <<endpoint_dirs, live_pids>>]_commandVars

\* get_status found a PID file of a process that is dead
C23_Witness ==
    /\ command_result.op = "get_status"
    /\ command_result.rv = "HANGING"
    /\ endpoint_dirs[command_result.name].pid_file \notin live_pids \cup {NoPid}

\* C24: start_endpoint returns 1 and changes nothing for a running
\* endpoint, a missing directory and a missing or unparseable
\* configuration; for a configured, stopped endpoint it starts the server
\* and returns 0.
C24_StartEndpoint ==
    [][Called("start_endpoint") =>
        LET rv == command_result'.rv
            status == GetStatus(DirBefore, live_pids)
        IN  /\ (status = "RUNNING" \/ ~Readable(DirBefore)) =>
                 rv = 1 /\ UNCHANGED <<endpoint_dirs, live_pids>>
            /\ status = "STOPPED" =>
                 /\ rv = 0
                 /\ DirAfter.pid_file \in live_pids' \ live_pids
                 /\ DirAfter.config.uuid = DirBefore.config.uuid]_commandVars

\* a stopped endpoint was started as a daemon
C24_Witness ==
    /\ command_result.op = "start_endpoint"
    /\ command_result.args = <<TRUE>>
    /\ command_result.rv = 0
    /\ GetStatus(endpoint_dirs[command_result.name], live_pids) = "RUNNING"

\* C25: for a hanging endpoint start_endpoint and stop_endpoint return 1
\* and leave the PID file when the stored host is another host; else the
\* PID file is removed, start_endpoint starts the server and returns 0 and
\* stop_endpoint returns 0.
C25_HangingDependsOnHost ==
    [][(Called("start_endpoint") \/ Called("stop_endpoint")) =>
        LET rv == command_result'.rv
            host == DirBefore.config.host
        IN  GetStatus(DirBefore, live_pids) = "HANGING" =>
              IF host \notin {NoHost, LocalHost}
              THEN rv = 1 /\ UNCHANGED <<endpoint_dirs, live_pids>>
              ELSE /\ rv = 0
                   /\ DirAfter.pid_file # DirBefore.pid_file
                   /\ IF command_result'.op = "start_endpoint"
                      THEN DirAfter.pid_file \in live_pids'
                      ELSE DirAfter.pid_file = NoPid /\ live_pids' = live_pids]_commandVars

\* stop_endpoint refused a hanging endpoint whose PID file is of another host
C25_Witness ==
    /\ command_result.op = "stop_endpoint"
    /\ command_result.rv = 1
    /\ Readable(endpoint_dirs[command_result.name])
    /\ endpoint_dirs[command_result.name].config.host = "abcd"
    /\ GetStatus(endpoint_dirs[command_result.name], live_pids) = "HANGING"

\* C26: stop_endpoint ends the process of a running endpoint, removes the
\* PID file and returns 0; it returns 0 and changes nothing for a stopped
\* one and 1 for an unknown one; after it returned 0 there is no PID file
\* and the status is STOPPED.
C26_StopEndpoint ==
    [][Called("stop_endpoint") =>
        LET rv == command_result'.rv
            status == GetStatus(DirBefore, live_pids)
        IN  /\ status = "RUNNING" =>
                 /\ rv = 0
                 /\ DirBefore.pid_file \notin live_pids'
                 /\ DirAfter.pid_file = NoPid
            /\ status = "STOPPED" =>
                 rv = 0 /\ UNCHANGED <<endpoint_dirs, live_pids>>
            /\ status = "UNKNOWN" => rv = 1
            /\ rv = 0 =>
                 /\ DirAfter.pid_file = NoPid
                 /\ GetStatus(DirAfter, live_pids') = "STOPPED"]_commandVars

\* an endpoint was started and then stopped
C26_Witness ==
    /\ command_result.op = "stop_endpoint"
    /\ command_result.rv = 0
    /\ command_calls = 2
    /\ live_pids = {}
    /\ endpoint_dirs[command_result.name].config.host = LocalHost
    /\ \A n \in EndpointNames :
          endpoint_dirs[n].exists => endpoint_dirs[n].config.host # "abcd"

\* C27: remove_endpoint returns 1 and leaves the directory for a running
\* or hanging endpoint, returns 1 for a name with no directory, and removes
\* nothing else than a directory whose endpoint is not running or hanging;
\* after it returned 0 the name is not among the configured endpoints.
C27_RemoveEndpoint ==
    [][Called("remove_endpoint") =>
        LET rv == command_result'.rv
            status == GetStatus(DirBefore, live_pids)
        IN  /\ status \in {"RUNNING", "HANGING"} =>
                 rv = 1 /\ UNCHANGED <<endpoint_dirs, live_pids>>
            /\ ~DirBefore.exists => rv = 1
            /\ rv = 1 => UNCHANGED endpoint_dirs
            /\ rv = 0 =>
                 /\ DirBefore.exists
                 /\ command_result'.name \notin Configured(endpoint_dirs')
                 /\ \A n \in EndpointNames \ {command_result'.name} :
                       endpoint_dirs'[n] = endpoint_dirs[n]]_commandVars

\* an endpoint was configured and then removed
C27_Witness ==
    /\ command_result.op = "remove_endpoint"
    /\ command_result.rv = 0
    /\ command_calls = 2
    /\ ~endpoint_dirs[command_result.name].exists
    /\ \A n \in EndpointNames : ~endpoint_dirs[n].exists

\* C28: configure_endpoint makes, for a valid name with no directory, a
\* directory whose configuration holds the name, the port, the server and a
\* uuid no configuration has, and returns 0; for a name with a directory
\* and for an invalid name it returns 1 and changes no configuration.
C28_ConfigureEndpoint ==
    [][Called("configure_endpoint") =>
        LET rv == command_result'.rv
            name == command_result'.name
        IN  /\ (name \in EndpointNames /\ ~DirBefore.exists) =>
                 /\ rv = 0
                 /\ Readable(DirAfter)
                 /\ DirAfter.config.name = name
                 /\ <<DirAfter.config.port, DirAfter.config.server>> = command_result'.args
                 /\ \A n \in Configured(endpoint_dirs) :
                       /\ endpoint_dirs[n].config.uuid # DirAfter.config.uuid
                       /\ endpoint_dirs'[n] = endpoint_dirs[n]
            /\ (name = InvalidName \/ DirBefore.exists) =>
                 rv = 1 /\ UNCHANGED endpoint_dirs]_commandVars

\* both names were configured, one after the other
C28_Witness ==
    /\ command_result.op = "configure_endpoint"
    /\ command_result.rv = 0
    /\ \A n \in EndpointNames :
          /\ Readable(endpoint_dirs[n])
          /\ endpoint_dirs[n].config.uuid >= 3

(* ===================== peer-connection manager ========================= *)
MaxQueued == 2
MaxRequests == 4
MaxReconnects == 1

\* the identities of the two endpoints, and the peer of each
Peers == {1, 2}
PeerOf(p) == 3 - p

\* nil, and the handle of the channel that offerer and answerer negotiated
NoChannel == [offerer |-> 0, answerer |-> 0]
Channel(offerer, answerer) == [offerer |-> offerer, answerer |-> answerer]

\* a record as it is created: IDLE, no channel, nothing queued, no
\* correlation-id assigned; opened is history: the record has been OPEN
NewRecord ==
    [state |-> "IDLE", channel |-> NoChannel, queued |-> 0, reconnects |-> 0,
     next_id |-> 0, opened |-> FALSE]

Description(src, description) ==
    [source_uuid |-> src, peer_uuid |-> PeerOf(src), description |-> description]

ManagerInit ==
    /\ peer_records = [p \in Peers |-> NewRecord]
    /\ signaling = {}

\* mutant: the higher identity's offer wins
HigherOfferWins(local, peer) == local > peer

\* tie-break: the lower identity's offer wins
OfferWins(local, peer) == local < peer

\* the record after its channel or its handshake failed: pending requests
\* are failed; the table names no action on the handle, which stays
Closed(record) == [record EXCEPT !.state = "CLOSED", !.queued = 0]

\* mutant: the record becomes OPEN and no handle is bound
OpenedUnbound(record, channel) ==
    [record EXCEPT !.state = "OPEN", !.queued = 0, !.opened = TRUE]

\* OFFERING/ANSWERING -> OPEN: bind the handle, drain the queued requests
Opened(record, channel) ==
    [record EXCEPT !.state = "OPEN", !.channel = channel, !.queued = 0,
                   !.opened = TRUE]

\* send(peer, request) at p: the request takes a fresh correlation-id; IDLE
\* and CLOSED (revival, at most MaxReconnects times) queue it and offer, the
\* handshake states queue it (at most MaxQueued), OPEN transmits it
PeerSend(p) ==
    LET record == peer_records[p]
        assigned == [record EXCEPT !.next_id = @ + 1]
    IN  /\ record.next_id < MaxRequests
        /\ CASE record.state = "IDLE" ->
                  /\ peer_records' = [peer_records EXCEPT ![p] =
                         [assigned EXCEPT !.state = "OFFERING", !.queued = 1]]
                  /\ signaling' = signaling \cup {Description(p, "offer")}
             [] record.state = "CLOSED" ->
                  /\ record.reconnects < MaxReconnects
                  /\ peer_records' = [peer_records EXCEPT ![p] =
                         [assigned EXCEPT !.state = "OFFERING", !.queued = 1,
                                          !.reconnects = @ + 1]]
                  /\ signaling' = signaling \cup {Description(p, "offer")}
             [] record.state \in {"OFFERING", "ANSWERING"} ->
                  /\ record.queued < MaxQueued
                  /\ peer_records' = [peer_records EXCEPT ![p] =
                         [assigned EXCEPT !.queued = @ + 1]]
                  /\ UNCHANGED signaling
             [] record.state = "OPEN" ->
                  /\ peer_records' = [peer_records EXCEPT ![p] = assigned]
                  /\ UNCHANGED signaling

\* inbound PeerConnectionMessage{description=offer} at p
ReceiveOffer(p) ==
    LET message == Description(PeerOf(p), "offer")
        record == peer_records[p]
        answers == \/ record.state = "IDLE"
                   \/ record.state = "OFFERING" /\ ~OfferWins(p, PeerOf(p))
    IN  /\ message \in signaling
        /\ IF answers
           THEN /\ peer_records' = [peer_records EXCEPT ![p].state = "ANSWERING"]
                /\ signaling' = (signaling \ {message}) \cup {Description(p, "answer")}
           ELSE /\ signaling' = signaling \ {message}
                /\ UNCHANGED peer_records

\* inbound PeerConnectionMessage{description=answer} at p
ReceiveAnswer(p) ==
    LET message == Description(PeerOf(p), "answer")
    IN  /\ message \in signaling
        /\ signaling' = signaling \ {message}
        /\ IF peer_records[p].state = "OFFERING"
           THEN peer_records' =
                    [peer_records EXCEPT ![p] = Opened(@, Channel(p, PeerOf(p)))]
           ELSE UNCHANGED peer_records

\* channel established at the answerer p: the offerer is OPEN on the
\* channel it bound
ChannelEstablished(p) ==
    /\ peer_records[p].state = "ANSWERING"
    /\ peer_records[PeerOf(p)].state = "OPEN"
    /\ peer_records[PeerOf(p)].channel = Channel(PeerOf(p), p)
    /\ peer_records' = [peer_records EXCEPT ![p] = Opened(@, Channel(PeerOf(p), p))]
    /\ UNCHANGED signaling

\* the handshake timer of p fires
HandshakeTimerFires(p) ==
    /\ peer_records[p].state \in {"OFFERING", "ANSWERING"}
    /\ peer_records' = [peer_records EXCEPT ![p] = Closed(@)]
    /\ UNCHANGED signaling

\* channel error or close at p
ChannelError(p) ==
    /\ peer_records[p].state = "OPEN"
    /\ peer_records' = [peer_records EXCEPT ![p] = Closed(@)]
    /\ UNCHANGED signaling

\* a record that is CLOSED with no pending request is destroyed; the next
\* one for the peer is created anew
DestroyRecord(p) ==
    /\ peer_records[p].state = "CLOSED"
    /\ peer_records' = [peer_records EXCEPT ![p] = NewRecord]
    /\ UNCHANGED signaling

\* the handshake while no timer fires and no channel fails
HandshakeNext ==
    \/ \E p \in Peers : PeerSend(p) /\ UNCHANGED notManagerVars
    \/ \E p \in Peers : ReceiveOffer(p) /\ UNCHANGED notManagerVars
    \/ \E p \in Peers : ReceiveAnswer(p) /\ UNCHANGED notManagerVars
    \/ \E p \in Peers : ChannelEstablished(p) /\ UNCHANGED notManagerVars

ManagerNext ==
    \/ HandshakeNext
    \/ \E p \in Peers : HandshakeTimerFires(p) /\ UNCHANGED notManagerVars
    \/ \E p \in Peers : ChannelError(p) /\ UNCHANGED notManagerVars
    \/ \E p \in Peers : DestroyRecord(p) /\ UNCHANGED notManagerVars

\* signaling relays every message in flight, and a negotiated channel comes up
HandshakeFairness ==
    \A p \in Peers :
        /\ WF_managerVars(ReceiveOffer(p))
        /\ WF_managerVars(ReceiveAnswer(p))
        /\ WF_managerVars(ChannelEstablished(p))

\* both endpoints called send while IDLE and both offers are in flight
Crossed ==
    /\ \A p \in Peers : peer_records[p].state = "OFFERING"
    /\ \A p \in Peers : Description(p, "offer") \in signaling

\* one channel is OPEN at both ends, offered by 1 and answered by 2
TieBroken ==
    \A p \in Peers :
        /\ peer_records[p].state = "OPEN"
        /\ peer_records[p].channel = Channel(1, 2)

\* C29: after the offers of 1 and 2 crossed, under every delivery order the
\* two records end up OPEN on one channel with 1 the offerer and 2 the
\* answerer, and none stays OFFERING or ANSWERING.
C29_TieBreak == [](Crossed => <>[]TieBroken)

\* the channel is OPEN at both ends while the offer that 2 discarded is
\* still in flight
C29_Witness ==
    /\ TieBroken
    /\ Description(2, "offer") \in signaling

MaxSlots == 3
MaxReplies == 3

\* the correlation-ids a Reply can carry: those send assigns, in order
CorrelationIds == 1 .. MaxSlots

RequestsInit ==
    /\ slots = [id \in CorrelationIds |-> "none"]
    /\ completions = [id \in CorrelationIds |-> 0]
    /\ replies = {}
    /\ reply_count = 0
    /\ request_channel = "OPEN"

\* mutant: a reply is accepted for every correlation-id that was issued
IsIssued(table, id) == table[id] # "none"

\* the correlation-id is in the pending-requests table
IsPending(table, id) == table[id] = "pending"

\* the slot of id is completed with outcome
Complete(id, outcome) ==
    /\ slots' = [slots EXCEPT ![id] = outcome]
    /\ completions' = [completions EXCEPT ![id] = @ + 1]

\* send(peer, request) on the open channel: a fresh correlation-id
\* (monotonic within the record) and a completion slot
SendRequest ==
    \E id \in CorrelationIds :
        /\ request_channel = "OPEN"
        /\ slots[id] = "none"
        /\ \A lower \in 1 .. id - 1 : slots[lower] # "none"
        /\ slots' = [slots EXCEPT ![id] = "pending"]
        /\ UNCHANGED <<completions, replies, reply_count, request_channel>>

\* the peer transmits a Reply carrying id, whether or not id was issued
\* and whether or not it replied to id before
PeerReplies(id) ==
    /\ reply_count < MaxReplies
    /\ id \notin replies
    /\ replies' = replies \cup {id}
    /\ reply_count' = reply_count + 1
    /\ UNCHANGED <<slots, completions, request_channel>>

\* receipt of the Reply carrying id: complete the slot, or drop the reply
ReceiveReply(id) ==
    /\ id \in replies
    /\ replies' = replies \ {id}
    /\ IF IsPending(slots, id)
       THEN Complete(id, "OK")
       ELSE UNCHANGED <<slots, completions>>
    /\ UNCHANGED <<reply_count, request_channel>>

\* the per-request timeout of id expires: the slot is completed with
\* PeerTimeout, the channel stays
RequestTimeout(id) ==
    /\ IsPending(slots, id)
    /\ Complete(id, "PeerTimeout")
    /\ UNCHANGED <<replies, reply_count, request_channel>>

\* the caller cancels the send of id: the slot is removed
CancelRequest(id) ==
    /\ IsPending(slots, id)
    /\ slots' = [slots EXCEPT ![id] = "cancelled"]
    /\ UNCHANGED <<completions, replies, reply_count, request_channel>>

\* channel error or close: every pending request fails with ChannelError
RequestChannelError ==
    /\ request_channel = "OPEN"
    /\ request_channel' = "CLOSED"
    /\ slots' = [id \in CorrelationIds |->
                    IF IsPending(slots, id) THEN "ChannelError" ELSE slots[id]]
    /\ completions' = [id \in CorrelationIds |->
                    IF IsPending(slots, id) THEN completions[id] + 1 ELSE completions[id]]
    /\ UNCHANGED <<replies, reply_count>>

RequestsNext ==
    \/ SendRequest /\ UNCHANGED notRequestVars
    \/ \E id \in CorrelationIds : PeerReplies(id) /\ UNCHANGED notRequestVars
    \/ \E id \in CorrelationIds : ReceiveReply(id) /\ UNCHANGED notRequestVars
    \/ \E id \in CorrelationIds : RequestTimeout(id) /\ UNCHANGED notRequestVars
    \/ \E id \in CorrelationIds : CancelRequest(id) /\ UNCHANGED notRequestVars
    \/ RequestChannelError /\ UNCHANGED notRequestVars

\* this step is the receipt of the Reply carrying id
Received(id) == id \in replies /\ id \notin replies'

\* C31: the receipt of a Reply completes a slot only if its correlation-id
\* was pending just before; a Reply whose correlation-id is not pending
\* completes no slot and leaves the table and the channel as they are; no
\* slot is completed twice.
C31_ReplyCorrelation ==
    /\ [][\A id \in CorrelationIds : Received(id) =>
            /\ \A other \in CorrelationIds :
                  completions'[other] # completions[other] =>
                      other = id /\ slots[id] = "pending"
            /\ slots[id] # "pending" =>
                  UNCHANGED <<slots, completions, request_channel>>
            /\ request_channel' = request_channel]_requestVars
    /\ [](\A id \in CorrelationIds : completions[id] <= 1)

\* a late Reply was dropped: its request had timed out, and the channel is
\* still OPEN
C31_Witness ==
    /\ slots[1] = "PeerTimeout"
    /\ completions[1] = 1
    /\ reply_count = 1
    /\ replies = {}
    /\ request_channel = "OPEN"

(* ========================== specifications ============================= *)
InitAll == Init /\ ConnectInit /\ EndpointInitIdle /\ EndpointIdle /\ RemoteIdle /\ FactoryIdle /\ BackendInit /\ CommandsIdle /\ ManagerInit /\ RequestsInit

\* the signaling server
Spec == InitAll /\ [][Next]_vars

\* one call of the signaling client's connect()
SpecConnect == InitAll /\ [][ConnectNext]_connectVars

\* one construction of an EndpointConnector
InitEndpointInit == Init /\ ConnectInit /\ EndpointInitInputs /\ EndpointIdle /\ RemoteIdle /\ FactoryIdle /\ BackendInit /\ CommandsIdle /\ ManagerInit /\ RequestsInit
SpecEndpointInit == InitEndpointInit /\ [][EndpointInitNext]_initVars

\* the operations of the EndpointConnectors
InitEndpoint == Init /\ ConnectInit /\ EndpointInitIdle /\ EndpointInit /\ RemoteIdle /\ FactoryIdle /\ BackendInit /\ CommandsIdle /\ ManagerInit /\ RequestsInit
SpecEndpoint == InitEndpoint /\ [][EndpointNext]_endpointVars

\* the RemoteStores of the processes
InitRemote == Init /\ ConnectInit /\ EndpointInitIdle /\ EndpointIdle /\ RemoteInit /\ FactoryIdle /\ BackendInit /\ CommandsIdle /\ ManagerInit /\ RequestsInit
SpecRemote == InitRemote /\ [][RemoteNext]_remoteVars

\* the RemoteFactory of one process
InitFactory == Init /\ ConnectInit /\ EndpointInitIdle /\ EndpointIdle /\ FactoryInit /\ BackendInit /\ CommandsIdle /\ ManagerInit /\ RequestsInit
SpecFactory == InitFactory /\ [][FactoryNext]_<<remoteVars, factoryVars>>

\* the init calls of one process
SpecBackend == InitAll /\ [][BackendNext]_backendVars

\* the endpoint commands, from every state of the endpoint directories
InitCommands == Init /\ ConnectInit /\ EndpointInitIdle /\ EndpointIdle /\ RemoteIdle /\ FactoryIdle /\ BackendInit /\ CommandsInit /\ ManagerInit /\ RequestsInit
SpecCommands == InitCommands /\ [][CommandsNext]_commandVars

\* the peer-connection managers of two endpoints
SpecManager == InitAll /\ [][ManagerNext]_managerVars

\* the handshake with every message relayed before a timer fires
SpecHandshake == InitAll /\ [][HandshakeNext]_managerVars /\ HandshakeFairness

\* the requests on the open channel of one record
SpecRequests == InitAll /\ [][RequestsNext]_requestVars

\* the RemoteStore objects when only one of them writes
SpecRemoteWriter == InitRemote /\ [][RemoteWriterNext]_remoteVars

====
